---- MODULE Spec2Model ----
(***************************************************************************)
(* A model of src/web_app_scanner.py: VulnerabilityScanner.scan, its two   *)
(* discovery steps, the fourteen test_* methods it hands to a              *)
(* ThreadPoolExecutor, and report_results.                                 *)
(*                                                                         *)
(* A URL is a sequence of tokens (strings); "=" is a token of its own, so  *)
(* that '"=" in url' and url.replace("=", ...) are computed on the URL.    *)
(* A response body is a set of text fragments; "s in text" is decided by   *)
(* the substring table Subs.                                               *)
(***************************************************************************)
EXTENDS Integers, Sequences, FiniteSets, TLC

\* ---------------------------------------------------------------- bounds
\* Largest -t/--threads value explored (the values -1 and 0 are explored too).
MaxThreadsArg == 2
\* Largest number of <form> elements on the served page.
MaxForms == 2

\* ------------------------------------------------------ program constants
\* The number of bound methods in scan()'s tests list.
NumTests == 14
\* test_http_methods: list(self.links_to_ignore)[:10]
MethodUrlLimit == 10

\* The tests list of scan(), in submission order.
Tests ==
    << "test_sql_injection", "test_xss", "test_directory_traversal",
       "test_sensitive_files", "test_command_injection", "test_ssrf",
       "test_idor", "test_csrf", "test_http_methods", "test_cors",
       "test_security_headers", "test_jwt_issues", "test_clickjacking",
       "test_server_info_disclosure" >>

TestNames == { Tests[i] : i \in 1..NumTests }

\* --------------------------------------------------------------- helpers
\* Python None (a missing attribute returned by input_tag.get('name')).
NoneValue == "<None>"

RECURSIVE SeqToSet(_)
SeqToSet(s) == IF s = << >> THEN {} ELSE {Head(s)} \cup SeqToSet(Tail(s))

\* All orders in which a set of at most two or three elements can be iterated.
Permutations3(S) ==
    { p \in UNION { [1..n -> S] : n \in {Cardinality(S)} } :
        \A i, j \in DOMAIN p : i # j => p[i] # p[j] }

\* The sequences of at most n elements of S.
SeqsUpTo(S, n) == UNION { [1..k -> S] : k \in 0..n }

\* s[1..n] (Python s[:n])
Take(s, n) == IF Len(s) <= n THEN s ELSE SubSeq(s, 1, n)

\* str.lower() on the strings the model uses.
Lower(s) ==
    CASE s = "CSRF"       -> "csrf"
      [] s = "CSRFToken"  -> "csrftoken"
      [] s = "Username"   -> "username"
      [] s = "JavaScript:" -> "javascript:"
      [] OTHER            -> s

\* The strings s for which "s in frag" is true, for the fragments a body can hold.
Subs(frag) ==
    {frag} \cup
    CASE frag = "sql syntax"  -> {"sql", "syntax"}
      [] frag = "root:x:0:0"  -> {"root:"}
      [] frag = "uid=0(root)" -> {"uid="}
      [] frag = "ami-id metadata" -> {"metadata"}
      [] frag = "http://localhost/admin" -> {"admin"}
      [] frag = "https://evil.com" -> {"evil.com"}
      [] frag = "https://notevil.com" -> {"evil.com", "notevil.com"}
      [] frag = "\"><script>alert('XSS')</script>" -> {"<script>alert('XSS')</script>"}
      [] OTHER                -> {}

\* "s in text"
Contains(text, s) == \E frag \in text : s \in Subs(frag)

\* ------------------------------------------------------------------ URLs
\* self.target_url after rstrip('/').
target_url == << "http://t" >>

\* '"=" in url'
HasParam(url) == \E i \in DOMAIN url : url[i] = "="

\* url.replace("=", f"={payload}"): every "=" token is followed by the payload.
RECURSIVE ReplaceEq(_, _)
ReplaceEq(url, payload) ==
    IF url = << >> THEN << >>
    ELSE IF Head(url) = "="
         THEN << "=", payload >> \o ReplaceEq(Tail(url), payload)
         ELSE << Head(url) >> \o ReplaceEq(Tail(url), payload)

\* base_url + name (test_directory_traversal, test_sensitive_files)
BaseUrl == target_url \o << "/" >>

\* ------------------------------------------------------- payload lists
SqlPayloads ==
    << "'", "\"", "' OR '1'='1", "\" OR \"1\"=\"1", "' OR 1=1--", "admin'--",
       "1 AND 1=1", "1 AND 1=2", "1' ORDER BY 1--", "1' ORDER BY 10--",
       "1' UNION SELECT null,username,password FROM users--" >>

SqlMarkers == { "error", "syntax", "mysql", "ora-", "sql" }

XssPayloads ==
    << "<script>alert('XSS')</script>", "<img src=x onerror=alert('XSS')>",
       "\"><script>alert('XSS')</script>", "javascript:alert('XSS')",
       "onmouseover=alert('XSS')", "<svg/onload=alert('XSS')>" >>

TraversalPayloads ==
    << "../../../../etc/passwd", "../../../../windows/win.ini",
       "%2e%2e%2f%2e%2e%2f%2e%2e%2fetc%2fpasswd", "..%2F..%2F..%2Fetc%2Fpasswd",
       "....//....//etc/passwd" >>

SensitiveFiles ==
    << "robots.txt", ".git/", ".env", "config.php", "wp-config.php",
       "phpinfo.php", "admin/", "backup/", "phpmyadmin/", ".htaccess",
       ".DS_Store", "web.config", "server-status", "debug.log",
       "package.json", "composer.json", "yarn.lock", "Gemfile.lock",
       "config.yml", "settings.py", "secrets.yml", "credentials.json" >>

\* file.endswith(('.php', '.json', '.yml', '.py'))
HasCodeSuffix(file) ==
    file \in { "config.php", "wp-config.php", "phpinfo.php", "package.json",
               "composer.json", "config.yml", "settings.py", "secrets.yml",
               "credentials.json" }

\* The two backquoted payloads are written with <bq> for the backquote, a
\* character a TLA+ string cannot hold.
CmdPayloads ==
    << ";id", "|id", "<bq>id<bq>", "$(id)", "|| id", "&& id",
       "; whoami", "| whoami", "<bq>whoami<bq>", "$(whoami)" >>

CmdMarkers == { "uid=", "gid=", "groups=", "windows nt" }

SsrfPayloads ==
    << "http://169.254.169.254/latest/meta-data/", "http://localhost/admin",
       "http://127.0.0.1:8080" >>

SsrfMarkers == { "aws", "ec2", "metadata", "admin" }

HttpMethods == << "OPTIONS", "TRACE", "PUT", "DELETE" >>

CsrfNames == { "csrf", "csrftoken", "_token" }

RequiredHeaders ==
    << "X-Content-Type-Options", "X-Frame-Options", "Content-Security-Policy",
       "X-XSS-Protection", "Strict-Transport-Security" >>

\* ----------------------------------------------------------- the target
\* What the crawler stores for one <form>: form_details.
LoginForm ==
    [ action |-> target_url \o << "/login" >>, method |-> "POST",
      inputs |-> << [name |-> "username", type |-> "text", value |-> ""],
                    [name |-> "password", type |-> "password", value |-> ""] >> ]

TokenForm ==
    [ action |-> target_url \o << "/search" >>, method |-> "GET",
      inputs |-> << [name |-> "CSRFToken", type |-> "hidden", value |-> "tok"],
                    [name |-> "q", type |-> "search", value |-> ""] >> ]

\* A form whose submit button has no name attribute: input_tag.get('name') is None.
SubmitForm ==
    [ action |-> target_url \o << "/contact" >>, method |-> "POST",
      inputs |-> << [name |-> "email", type |-> "text", value |-> ""],
                    [name |-> NoneValue, type |-> "submit", value |-> "Send"] >> ]

FormPool == { LoginForm, TokenForm, SubmitForm }

FormLists == UNION { [1..n -> FormPool] : n \in 0..MaxForms }

ParamLink == target_url \o << "/item", "?", "id", "=", "1" >>
PlainLink == target_url \o << "/about" >>

\* A server that discloses nothing and is vulnerable to nothing. (stored: text
\* that every page of the target holds, whatever the request.)
Hardened ==
    [ headers   |-> SeqToSet(RequiredHeaders),
      server    |-> NoneValue,
      powered   |-> NoneValue,
      acao      |-> "",
      allow     |-> {},
      sqlTrigger |-> 0,
      sqlFields |-> "any",
      reflect   |-> FALSE,
      traversal |-> FALSE,
      files     |-> {},
      links     |-> {},
      phpCookie |-> FALSE,
      paths200  |-> {},
      body      |-> {},
      stored    |-> {} ]

\* A server that reflects what it is sent and answers the payload
\* "' OR '1'='1" with a database error, and discloses nothing else.
Injectable ==
    [ headers   |-> SeqToSet(RequiredHeaders),
      server    |-> NoneValue,
      powered   |-> NoneValue,
      acao      |-> "",
      allow     |-> {},
      sqlTrigger |-> 3,
      sqlFields |-> "any",
      reflect   |-> TRUE,
      traversal |-> FALSE,
      files     |-> {},
      links     |-> { ParamLink, PlainLink },
      phpCookie |-> FALSE,
      paths200  |-> {},
      body      |-> {},
      stored    |-> {} ]

\* A server that discloses its software, sends no security header, allows
\* every origin and OPTIONS, and serves /.env and /etc/passwd.
Leaky ==
    [ headers   |-> { "Server", "X-Powered-By" },
      server    |-> "Apache/2.4.41",
      powered   |-> "PHP/7.4",
      acao      |-> "*",
      allow     |-> { "OPTIONS" },
      sqlTrigger |-> 0,
      sqlFields |-> "any",
      reflect   |-> FALSE,
      traversal |-> TRUE,
      files     |-> { ".env" },
      links     |-> {},
      phpCookie |-> TRUE,
      paths200  |-> { "wp-admin" },
      body      |-> { "react" },
      stored    |-> {} ]

\* The server of the login scenario: it answers with a database error only
\* when every field of the submitted form holds "' OR '1'='1", sends every
\* security header and discloses nothing.
LoginServer == [ Hardened EXCEPT !.sqlTrigger = 3, !.sqlFields = "all" ]

\* A form that carries an anti-CSRF token in a field named csrf_token.
CsrfTokenForm ==
    [ action |-> target_url \o << "/profile" >>, method |-> "POST",
      inputs |-> << [name |-> "csrf_token", type |-> "hidden", value |-> "tok"],
                    [name |-> "email", type |-> "text", value |-> ""] >> ]

Profiles == { Hardened, Injectable, Leaky }

\* The targets explored: a server profile and the forms of its home page. The
\* two profiles whose servers answer the probes with findings serve at most one
\* form.
Sites ==
    { [ profile |-> Hardened, forms |-> fl ] : fl \in FormLists }
        \cup { [ profile |-> p, forms |-> fl ] :
                  p \in { Injectable, Leaky }, fl \in { g \in FormLists : Len(g) <= 1 } }

\* The -t/--threads values explored: argparse accepts every integer.
ThreadArgs == (0 - 1) .. MaxThreadsArg

\* "up": the target answers; "down": every connection fails; "silent": the
\* target accepts the connection and never answers.
NetStates == { "up", "down", "silent" }

VARIABLES
    max_threads,      \* self.max_threads
    net,              \* the target's reachability during this scan
    site,             \* what the target serves
    pc,               \* where the thread that called scan() is
    hung,             \* threads blocked in a request that never returns
    technologies,     \* self.technologies
    links_to_ignore,  \* self.links_to_ignore
    link_iter,        \* the order in which the set links_to_ignore iterates
    forms,            \* self.forms
    vulnerabilities,  \* self.vulnerabilities
    submitted,        \* how many tests executor.submit has been called for
    work_queue,       \* the executor's queue of work items not yet taken
    num_threads,      \* worker threads the executor has created
    idle_semaphore,   \* the executor's count of workers that went idle
    tstate,           \* per test: "new", "queued", "running", "returned", "raised"
    tplan,            \* per test: what the started method does (see Plan)
    tpos,             \* per test: how many of its findings it has appended
    starts,           \* per test: how many times a worker started it
    caught,           \* tests whose exception scan() caught from future.result()
    report,           \* what report_results printed, << >> before it ran
    reports,          \* how many times report_results has run
    fp_done,          \* discover_technologies has returned
    crawl_done,       \* crawl has returned
    auth_creds,       \* self.auth_creds and self.session.auth, << >> for None
    answers,          \* what the target answers to the requests of fingerprinting
    requests,         \* the requests sent by the method called alone, in order
    fp_runs,          \* how many times discover_technologies has been called alone
    tech_first,       \* self.technologies when its first call alone returned
    url_arg,          \* args.url
    auth_arg,         \* args.auth
    page,             \* the tags of the home page, as crawl walks them
    crawl_idx,        \* the tag crawl is at in its current loop, from 1
    risk_in,          \* risk calculator: the score, likelihood and impact given
    risk_out,         \* risk calculator: what the last call returned
    running,          \* honeypot: self.running
    ports,            \* honeypot: self.ports
    listeners,        \* honeypot: per port, the listen_on_port threads alive
    log_entries       \* honeypot: len(self.log_entries)

vars ==
    << max_threads, net, site, pc, hung, technologies, links_to_ignore, link_iter,
       forms, vulnerabilities, submitted, work_queue, num_threads, idle_semaphore,
       tstate, tplan, tpos,
       starts, caught, report, reports, fp_done, crawl_done,
       auth_creds, answers, requests, fp_runs, tech_first, url_arg, auth_arg,
       page, crawl_idx, risk_in, risk_out, running, ports, listeners, log_entries >>

\* ------------------------------------------------------- the HTTP layer
\* The values a request carries: the token after each "=" of the URL, and the
\* submitted form values.
SentValues(url, data) ==
    { url[i + 1] : i \in { j \in 1..(Len(url) - 1) : url[j] = "=" } }
        \cup { data[k] : k \in DOMAIN data }

KnownUrls ==
    { target_url } \cup site.profile.links
        \cup { site.forms[i].action : i \in DOMAIN site.forms }

\* The form data of a request without any (a GET of a URL).
NoData == << >>

\* The response of the target to one request.
Server(method, url, data) ==
    LET p      == site.profile
        values == SentValues(url, data)
        isFile == \E f \in p.files : url = BaseUrl \o << f >>
    IN  [ status  |-> IF method \in SeqToSet(HttpMethods)
                         THEN (IF method \in p.allow THEN 200 ELSE 405)
                      ELSE IF url \in KnownUrls \/ isFile
                              \/ (\E q \in KnownUrls : HasParam(q) /\ Len(url) = Len(q) + 1)
                         THEN 200
                      ELSE 404,
          headers |-> p.headers,
          server  |-> p.server,
          powered |-> p.powered,
          acao    |-> p.acao,
          ctype   |-> IF isFile THEN "text/plain" ELSE "text/html",
          text    |-> (IF /\ p.sqlTrigger > 0
                             /\ SqlPayloads[p.sqlTrigger] \in values
                             /\ ( p.sqlFields = "all"
                                    => ( data # NoData
                                         /\ \A k \in DOMAIN data :
                                                data[k] = SqlPayloads[p.sqlTrigger] ) )
                          THEN { "sql syntax" } ELSE {})
                      \cup (IF p.reflect THEN values ELSE {})
                      \cup p.stored
                      \cup (IF p.traversal /\ url = BaseUrl \o << TraversalPayloads[1] >>
                               THEN { "root:x:0:0" } ELSE {}),
          url     |-> url ]

\* No request of a session call names a timeout; requests waits for ever then.
\* The outcome of one call: "error" (an exception of requests), "hang", or "ok".
Outcome(has_timeout) ==
    IF net = "down" THEN "error"
    ELSE IF net = "silent" THEN (IF has_timeout THEN "error" ELSE "hang")
    ELSE "ok"

\* self.session.get / post / request: called without timeout everywhere.
SessionOutcome == Outcome(FALSE)

\* requests.get(f"{self.target_url}/{path}", timeout=5)
PathProbeOutcome == Outcome(TRUE)

\* ------------------------------------------------------ the test methods
\* One tuple appended to self.vulnerabilities.
Finding(type, url, detail, tested) ==
    [ type |-> type, url |-> url, detail |-> detail, tested |-> tested ]

\* What a test method does when run alone: the findings it appends, in order,
\* and how it ends: "returned", "raised" (an exception leaves the method) or
\* "hung" (it waits for ever in a request).
Plan(appends, outcome) == [ appends |-> appends, outcome |-> outcome ]

\* text.lower()
LowerText(text) == { Lower(f) : f \in text }

\* The detection_logic lambdas handed to _test_url_params.
Detect(type, resp) ==
    CASE type = "SQL Injection" ->
             \E e \in SqlMarkers : Contains(LowerText(resp.text), e)
      [] type = "Cross-Site Scripting (XSS)" ->
             \E i \in DOMAIN XssPayloads : Contains(resp.text, XssPayloads[i])
      [] type = "Command Injection" ->
             \E e \in CmdMarkers : Contains(LowerText(resp.text), e)
      [] type = "SSRF Potential" ->
             \E e \in SsrfMarkers : Contains(LowerText(resp.text), e)

\* One request of a test method: the method, the URL, the form data and the
\* Origin header it carries ("" for none).
Sent(method, url, data, origin) ==
    [ method |-> method, url |-> url, data |-> data, origin |-> origin ]

\* One turn of a loop of a test method: the request it sends, whether the
\* response came and was detected, and the finding appended if it was.
Event(req, hit, finding) == [ req |-> req, hit |-> hit, finding |-> finding ]

\* The findings appended and the requests sent by the turns of a loop, in order.
FindsOf(evs) ==
    LET hits == SelectSeq(evs, LAMBDA e : e.hit)
    IN  [ k \in 1..Len(hits) |-> hits[k].finding ]

SentOf(evs) == [ k \in 1..Len(evs) |-> evs[k].req ]

\* A payload loop without the break: every payload is sent and every payload
\* whose response is detected gives a finding.
RECURSIVE UrlPayloadTraceNoBreak(_, _, _, _)
UrlPayloadTraceNoBreak(url, payloads, type, i) ==
    IF i > Len(payloads) THEN << >>
    ELSE LET test_url == ReplaceEq(url, payloads[i])
         IN  << Event(Sent("GET", test_url, NoData, ""),
                      SessionOutcome = "ok"
                          /\ Detect(type, Server("GET", test_url, NoData)),
                      Finding(type, url, << payloads[i] >>, test_url)) >>
             \o UrlPayloadTraceNoBreak(url, payloads, type, i + 1)

\* _test_url_params, the payload loop of one URL from payload i on: a request
\* per payload up to the first whose response is detected, which gives the
\* finding and the break; an exception of the request goes on with the next.
RECURSIVE UrlPayloadTrace(_, _, _, _)
UrlPayloadTrace(url, payloads, type, i) ==
    IF i > Len(payloads) THEN << >>
    ELSE LET test_url == ReplaceEq(url, payloads[i])
             req      == Sent("GET", test_url, NoData, "")
             finding  == Finding(type, url, << payloads[i] >>, test_url)
         IN  IF SessionOutcome = "ok" /\ Detect(type, Server("GET", test_url, NoData))
                THEN << Event(req, TRUE, finding) >>
                ELSE << Event(req, FALSE, finding) >>
                     \o UrlPayloadTrace(url, payloads, type, i + 1)

UrlPayloadLoop(url, payloads, type, i) ==
    FindsOf(UrlPayloadTrace(url, payloads, type, i))

\* _test_url_params, the loop over self.links_to_ignore.
RECURSIVE UrlTrace(_, _, _)
UrlTrace(urls, payloads, type) ==
    IF urls = << >> THEN << >>
    ELSE (IF HasParam(Head(urls))
             THEN UrlPayloadTrace(Head(urls), payloads, type, 1)
             ELSE << >>)
         \o UrlTrace(Tail(urls), payloads, type)

UrlLoop(urls, payloads, type) == FindsOf(UrlTrace(urls, payloads, type))

_test_url_params(payloads, type) == UrlLoop(link_iter, payloads, type)

\* data[input_field['name']] = ... for every input of the form, in order.
RECURSIVE BuildData(_, _, _, _)
BuildData(inputs, payload, types, data) ==
    IF inputs = << >> THEN data
    ELSE LET f == Head(inputs)
             v == IF f.type \in types THEN payload ELSE f.value
         IN  BuildData(Tail(inputs), payload, types,
                       [ k \in DOMAIN data \cup { f.name } |->
                             IF k = f.name THEN v ELSE data[k] ])

\* The payload loop of one form in test_sql_injection and test_xss: POST for
\* the method 'POST', GET with the data as parameters for any other.
RECURSIVE FormPayloadTrace(_, _, _, _, _)
FormPayloadTrace(form, payloads, type, types, i) ==
    IF i > Len(payloads) THEN << >>
    ELSE LET data == BuildData(form.inputs, payloads[i], types, NoData)
             verb == IF form.method = "POST" THEN "POST" ELSE "GET"
             resp == Server(form.method, form.action, data)
             req  == Sent(verb, form.action, data, "")
             hit  == IF type = "SQL Injection"
                        THEN \E e \in SqlMarkers : Contains(LowerText(resp.text), e)
                        ELSE Contains(resp.text, payloads[i])
             finding == Finding(type, form.action,
                                << "Form parameter with payload: ", payloads[i] >>,
                                resp.url)
         IN  IF SessionOutcome = "ok" /\ hit
                THEN << Event(req, TRUE, finding) >>
                ELSE << Event(req, FALSE, finding) >>
                     \o FormPayloadTrace(form, payloads, type, types, i + 1)

FormPayloadLoop(form, payloads, type, types, i) ==
    FindsOf(FormPayloadTrace(form, payloads, type, types, i))

RECURSIVE FormTrace(_, _, _, _)
FormTrace(fs, payloads, type, types) ==
    IF fs = << >> THEN << >>
    ELSE FormPayloadTrace(Head(fs), payloads, type, types, 1)
         \o FormTrace(Tail(fs), payloads, type, types)

FormLoop(fs, payloads, type, types) == FindsOf(FormTrace(fs, payloads, type, types))

\* A method all of whose requests sit in try/except: it returns, unless a
\* request it sends never comes back.
Guarded(appends, sends) ==
    IF sends /\ SessionOutcome = "hang" THEN Plan(<< >>, "hung")
    ELSE Plan(appends, "returned")

\* test_sql_injection with the payload kept out of the password fields.
test_sql_injection_no_password ==
    Guarded(_test_url_params(SqlPayloads, "SQL Injection")
                \o FormLoop(forms, SqlPayloads, "SQL Injection", { "text", "hidden" }),
            (\E i \in DOMAIN link_iter : HasParam(link_iter[i])) \/ forms # << >>)

test_sql_injection ==
    Guarded(_test_url_params(SqlPayloads, "SQL Injection")
                \o FormLoop(forms, SqlPayloads, "SQL Injection",
                            { "text", "password", "hidden" }),
            (\E i \in DOMAIN link_iter : HasParam(link_iter[i])) \/ forms # << >>)

test_xss ==
    Guarded(_test_url_params(XssPayloads, "Cross-Site Scripting (XSS)")
                \o FormLoop(forms, XssPayloads, "Cross-Site Scripting (XSS)",
                            { "text", "textarea", "search" }),
            (\E i \in DOMAIN link_iter : HasParam(link_iter[i])) \/ forms # << >>)

RECURSIVE TraversalLoop(_)
TraversalLoop(i) ==
    IF i > Len(TraversalPayloads) THEN << >>
    ELSE LET test_url == BaseUrl \o << TraversalPayloads[i] >>
             resp     == Server("GET", test_url, NoData)
         IN  (IF SessionOutcome = "ok"
                 /\ (Contains(resp.text, "root:") \/ Contains(resp.text, "[extensions]"))
                 THEN << Finding("Directory Traversal", test_url,
                                 << TraversalPayloads[i] >>, resp.url) >>
                 ELSE << >>)
             \o TraversalLoop(i + 1)

test_directory_traversal == Guarded(TraversalLoop(1), TRUE)

RECURSIVE SensitiveLoop(_)
SensitiveLoop(i) ==
    IF i > Len(SensitiveFiles) THEN << >>
    ELSE LET file     == SensitiveFiles[i]
             test_url == BaseUrl \o << file >>
             resp     == Server("GET", test_url, NoData)
         IN  (IF SessionOutcome = "ok" /\ resp.status = 200
                 /\ (resp.ctype # "text/html" \/ HasCodeSuffix(file))
                 THEN << Finding("Sensitive File Exposure", test_url, << >>, resp.url) >>
                 ELSE << >>)
             \o SensitiveLoop(i + 1)

test_sensitive_files == Guarded(SensitiveLoop(1), TRUE)

test_command_injection ==
    Guarded(_test_url_params(CmdPayloads, "Command Injection"),
            \E i \in DOMAIN link_iter : HasParam(link_iter[i]))

test_ssrf ==
    Guarded(_test_url_params(SsrfPayloads, "SSRF Potential"),
            \E i \in DOMAIN link_iter : HasParam(link_iter[i]))

test_idor == Plan(<< >>, "returned")

\* any(input_field.get('name', '').lower() in [...] for input_field in inputs):
\* "true", "false", or "raise" when a name is None (None has no lower()).
RECURSIVE AnyCsrfName(_)
AnyCsrfName(inputs) ==
    IF inputs = << >> THEN "false"
    ELSE IF Head(inputs).name = NoneValue THEN "raise"
    ELSE IF Lower(Head(inputs).name) \in CsrfNames THEN "true"
    ELSE AnyCsrfName(Tail(inputs))

RECURSIVE CsrfLoop(_, _)
CsrfLoop(fs, appended) ==
    IF fs = << >> THEN Plan(appended, "returned")
    ELSE LET any == AnyCsrfName(Head(fs).inputs)
         IN  IF any = "raise" THEN Plan(appended, "raised")
             ELSE IF any = "false"
                  THEN CsrfLoop(Tail(fs),
                                Append(appended,
                                       Finding("Potential CSRF (Missing Token)",
                                               Head(fs).action,
                                               << "Form missing CSRF token" >>,
                                               Head(fs).action)))
             ELSE CsrfLoop(Tail(fs), appended)

test_csrf == CsrfLoop(forms, << >>)

\* test_http_methods, the two nested loops from the j-th (url, method) pair on:
\* pair k is the method k mod 4 of the url k div 4, counted from 0.
MethodTrace(urls, j) ==
    LET n        == Len(HttpMethods)
        probe(k) == LET url    == urls[((k - 1) \div n) + 1]
                        method == HttpMethods[((k - 1) % n) + 1]
                        resp   == Server(method, url, NoData)
                    IN  Event(Sent(method, url, NoData, ""),
                              SessionOutcome = "ok" /\ resp.status \notin { 405, 501 },
                              Finding("Insecure HTTP Method Allowed", url,
                                      << "Method: ", method >>, url))
    IN  [ k \in 1..(Len(urls) * n - (j - 1)) |-> probe(k + j - 1) ]

MethodLoop(urls, j) == FindsOf(MethodTrace(urls, j))

test_http_methods ==
    Guarded(MethodLoop(<< target_url >> \o Take(link_iter, MethodUrlLimit), 1), TRUE)

test_cors ==
    LET resp == Server("GET", target_url, NoData)
    IN  Guarded(IF SessionOutcome = "ok"
                   /\ (resp.acao = "*" \/ Contains({ resp.acao }, "evil.com"))
                   THEN << Finding("CORS Misconfiguration", target_url,
                                   << "Access-Control-Allow-Origin: ", resp.acao >>,
                                   target_url) >>
                   ELSE << >>,
                TRUE)

test_security_headers ==
    LET resp    == Server("GET", target_url, NoData)
        missing == SelectSeq(RequiredHeaders, LAMBDA h : h \notin resp.headers)
    IN  Guarded(IF SessionOutcome = "ok" /\ missing # << >>
                   THEN << Finding("Missing Security Headers", target_url,
                                   << "Missing headers: " >> \o missing, target_url) >>
                   ELSE << >>,
                TRUE)

test_jwt_issues == Plan(<< >>, "returned")

test_clickjacking ==
    LET resp == Server("GET", target_url, NoData)
    IN  Guarded(IF SessionOutcome = "ok" /\ "X-Frame-Options" \notin resp.headers
                   THEN << Finding("Clickjacking Potential", target_url,
                                   << "Missing X-Frame-Options header" >>, target_url) >>
                   ELSE << >>,
                TRUE)

test_server_info_disclosure ==
    LET resp == Server("GET", target_url, NoData)
        info_disclosed ==
            (IF "Server" \in resp.headers THEN << "Server: ", resp.server >> ELSE << >>)
            \o (IF "X-Powered-By" \in resp.headers
                   THEN << "Powered By: ", resp.powered >> ELSE << >>)
            \o (IF "X-AspNet-Version" \in resp.headers
                   THEN << "ASP.NET Version: " >> ELSE << >>)
    IN  Guarded(IF SessionOutcome = "ok" /\ info_disclosed # << >>
                   THEN << Finding("Information Disclosure", target_url,
                                   << "Disclosed: " >> \o info_disclosed, target_url) >>
                   ELSE << >>,
                TRUE)

\* The requests a test method sends when run alone, in order; a request that
\* fails with an exception of requests has been sent.
SentBy(t) ==
    LET base == << Sent("GET", target_url, NoData, "") >>
    IN  CASE t = "test_sql_injection" ->
                 SentOf(UrlTrace(link_iter, SqlPayloads, "SQL Injection")
                            \o FormTrace(forms, SqlPayloads, "SQL Injection",
                                         { "text", "password", "hidden" }))
          [] t = "test_xss" ->
                 SentOf(UrlTrace(link_iter, XssPayloads, "Cross-Site Scripting (XSS)")
                            \o FormTrace(forms, XssPayloads, "Cross-Site Scripting (XSS)",
                                         { "text", "textarea", "search" }))
          [] t = "test_directory_traversal" ->
                 [ i \in 1..Len(TraversalPayloads) |->
                     Sent("GET", BaseUrl \o << TraversalPayloads[i] >>, NoData, "") ]
          [] t = "test_sensitive_files" ->
                 [ i \in 1..Len(SensitiveFiles) |->
                     Sent("GET", BaseUrl \o << SensitiveFiles[i] >>, NoData, "") ]
          [] t = "test_command_injection" ->
                 SentOf(UrlTrace(link_iter, CmdPayloads, "Command Injection"))
          [] t = "test_ssrf" ->
                 SentOf(UrlTrace(link_iter, SsrfPayloads, "SSRF Potential"))
          [] t = "test_http_methods" ->
                 SentOf(MethodTrace(<< target_url >> \o Take(link_iter, MethodUrlLimit), 1))
          [] t = "test_cors" -> << Sent("GET", target_url, NoData, "https://evil.com") >>
          [] t \in { "test_security_headers", "test_clickjacking",
                     "test_server_info_disclosure" } -> base
          [] OTHER -> << >>

\* The bound method a test name stands for.
Run(t) ==
    CASE t = "test_sql_injection"          -> test_sql_injection
      [] t = "test_xss"                    -> test_xss
      [] t = "test_directory_traversal"    -> test_directory_traversal
      [] t = "test_sensitive_files"        -> test_sensitive_files
      [] t = "test_command_injection"      -> test_command_injection
      [] t = "test_ssrf"                   -> test_ssrf
      [] t = "test_idor"                   -> test_idor
      [] t = "test_csrf"                   -> test_csrf
      [] t = "test_http_methods"           -> test_http_methods
      [] t = "test_cors"                   -> test_cors
      [] t = "test_security_headers"       -> test_security_headers
      [] t = "test_jwt_issues"             -> test_jwt_issues
      [] t = "test_clickjacking"           -> test_clickjacking
      [] t = "test_server_info_disclosure" -> test_server_info_disclosure

\* ------------------------------------------------------------- discovery
TechPaths == << "wp-admin", "joomla", "drupal", "laravel" >>

TechOfPath(path) ==
    CASE path = "wp-admin" -> "WordPress"
      [] path = "joomla"   -> "Joomla"
      [] path = "drupal"   -> "Drupal"
      [] path = "laravel"  -> "Laravel"

\* ------------------------------------------- discover_technologies, in full
\* self.auth_creds = None: no --auth was given.
NoAuth == << >>

\* args.auth when no --auth was given (None).
AbsentArg == << NoneValue >>

\* s.split(":") of a string s given as its characters: the parts between the
\* colons, one more part than there are colons.
RECURSIVE Split(_)
Split(s) ==
    IF s = << >> THEN << << >> >>
    ELSE LET rest == Split(Tail(s))
         IN  IF Head(s) = ":" THEN << << >> >> \o rest
             ELSE << << Head(s) >> \o Head(rest) >> \o Tail(rest)

\* The pair set by --auth u:p.
SomeAuth == Split(<< "u", ":", "p" >>)

\* self.session.headers.update({'User-Agent': ...}); a bare requests.get sends
\* the library's own User-Agent.
SessionUserAgent == "Mozilla/5.0"
LibraryUserAgent == "python-requests"

\* What one call of self.session.get sends: the session's auth, headers and
\* cookie jar go with it; no timeout is named.
SessionGet(url) ==
    [ via |-> "session", url |-> url, auth |-> auth_creds,
      agent |-> SessionUserAgent, jar |-> TRUE, timeout |-> NoneValue ]

\* What requests.get(url, timeout=5) sends: a request of its own, with no
\* auth, the library's headers and no cookie jar.
RequestsGet(url) ==
    [ via |-> "requests", url |-> url, auth |-> NoAuth,
      agent |-> LibraryUserAgent, jar |-> FALSE, timeout |-> "5" ]

\* What becomes of one path probe: the status code, or "error" for an
\* exception of requests (refused connection, timeout after 5 seconds).
PathAnswers == { "200", "404", "error" }

Frameworks == << "react", "angular", "vue" >>

LabelOfFramework(f) ==
    CASE f = "react"   -> "ReactJS"
      [] f = "angular" -> "Angular"
      [] f = "vue"     -> "Vue.js"

\* The answers of a target to fingerprinting: home is the outcome of the GETs
\* of the home page, server and powered are the values of the two headers ("<None>"
\* when absent), phpCookie says a cookie name contains "php", paths gives the
\* answer to each well-known path, body the framework words in the home page.
AnswerSets ==
    [ home : { "ok", "error" }, server : { NoneValue, "nginx" },
      powered : { NoneValue, "PHP/8" }, phpCookie : BOOLEAN,
      paths : [ SeqToSet(TechPaths) -> PathAnswers ],
      body : SUBSET SeqToSet(Frameworks) ]

\* A result of discover_technologies: the labels appended to
\* self.technologies and the requests sent.
FpResult(labels, sent) == [ labels |-> labels, sent |-> sent ]

\* Lines 98-104: the second GET of the home page and the framework words.
RECURSIVE FrameworkLabels(_, _)
FrameworkLabels(a, i) ==
    IF i > Len(Frameworks) THEN << >>
    ELSE (IF Frameworks[i] \in a.body
             THEN << << LabelOfFramework(Frameworks[i]) >> >> ELSE << >>)
         \o FrameworkLabels(a, i + 1)

FrameworkCheck(a, labels, sent) ==
    FpResult(labels \o FrameworkLabels(a, 1), sent \o << SessionGet(target_url) >>)

\* Lines 93-95: the well-known paths in the order of the dict. An exception of
\* one probe leaves the loop and the try block: the except clause at line 106
\* is the next statement run.
RECURSIVE PathLoop(_, _, _, _)
PathLoop(a, i, labels, sent) ==
    IF i > Len(TechPaths) THEN FrameworkCheck(a, labels, sent)
    ELSE LET path == TechPaths[i]
             now  == sent \o << RequestsGet(BaseUrl \o << path >>) >>
         IN  IF a.paths[path] = "error" THEN FpResult(labels, now)
             ELSE PathLoop(a, i + 1,
                           IF a.paths[path] = "200"
                              THEN labels \o << << TechOfPath(path) >> >>
                              ELSE labels,
                           now)

\* Lines 69-83: the headers and cookies of the home page.
HeaderLabels(a) ==
    (IF a.server # NoneValue THEN << << "Server: ", a.server >> >> ELSE << >>)
    \o (IF a.powered # NoneValue THEN << << "Powered By: ", a.powered >> >> ELSE << >>)
    \o (IF a.phpCookie THEN << << "PHP detected from cookies" >> >> ELSE << >>)

\* One call of discover_technologies against a target that answers as a.
discover_technologies(a) ==
    LET first == << SessionGet(target_url) >>
    IN  IF a.home = "error" THEN FpResult(<< >>, first)
        ELSE PathLoop(a, 1, HeaderLabels(a), first)

\* The answers of the site of a scan whose every request is answered.
SiteAnswers ==
    LET p == site.profile
    IN  [ home |-> "ok",
          server |-> IF "Server" \in p.headers THEN p.server ELSE NoneValue,
          powered |-> IF "X-Powered-By" \in p.headers THEN p.powered ELSE NoneValue,
          phpCookie |-> p.phpCookie,
          paths |-> [ q \in SeqToSet(TechPaths) |->
                        IF q \in p.paths200 THEN "200" ELSE "404" ],
          body |-> p.body ]

\* The labels discover_technologies appends when every request is answered.
FingerprintLabels == discover_technologies(SiteAnswers).labels

\* A scanner on which discover_technologies has not been called alone.
NoAnswers ==
    [ home |-> "error", server |-> NoneValue, powered |-> NoneValue,
      phpCookie |-> FALSE, paths |-> [ q \in SeqToSet(TechPaths) |-> "error" ],
      body |-> {} ]

FpFresh ==
    /\ requests = << >>
    /\ fp_runs = 0
    /\ tech_first = << >>

\* ---------------------------------------------------------------- scan()
\* scan() with the crawl left out: the executor is built right after
\* discover_technologies.
AfterStepSkipsCrawl(p) ==
    CASE p = "idle"                  -> "discover_technologies"
      [] p = "discover_technologies" -> "executor"
      [] p = "crawl"                 -> "executor"
      [] p = "executor"              -> "submit"
      [] p = "submit"                -> "as_completed"
      [] p = "as_completed"          -> "report_results"
      [] p = "report_results"        -> "done"

\* The order of the statements of scan(): the step that follows step p.
AfterStep(p) ==
    CASE p = "idle"                  -> "discover_technologies"
      [] p = "discover_technologies" -> "crawl"
      [] p = "crawl"                 -> "executor"
      [] p = "executor"              -> "submit"
      [] p = "submit"                -> "as_completed"
      [] p = "as_completed"          -> "report_results"
      [] p = "report_results"        -> "done"

\* An executor with one worker per test, whatever -t says.
PoolSizeOnePerTest == NumTests

\* ThreadPoolExecutor(max_workers=self.max_threads)
PoolSize == max_threads

\* ThreadPoolExecutor._adjust_thread_count, called by each of n submit calls:
\* an idle worker is claimed if there is one, else a thread is created unless
\* the pool already holds max_workers threads.
RECURSIVE AfterSubmits(_, _, _)
AfterSubmits(n, threads, idle) ==
    IF n = 0 THEN [ threads |-> threads, idle |-> idle ]
    ELSE IF idle > 0 THEN AfterSubmits(n - 1, threads, idle - 1)
    ELSE IF threads < PoolSize THEN AfterSubmits(n - 1, threads + 1, idle)
    ELSE AfterSubmits(n - 1, threads, idle)

Running == { t \in TestNames : tstate[t] = "running" }
Finished == { t \in TestNames : tstate[t] \in { "returned", "raised" } }

\* An append that is not atomic: while another test runs, the write lands in
\* the slot the other writer has just filled.
AppendFindingRacy(list, f) ==
    IF Cardinality(Running) > 1 /\ list # << >>
       THEN [ list EXCEPT ![Len(list)] = f ]
       ELSE Append(list, f)

\* An insertion at the head of the list.
AppendFindingFront(list, f) == << f >> \o list

\* self.vulnerabilities.append(f): one atomic step of the interpreter.
AppendFinding(list, f) == Append(list, f)

\* A loop that stops waiting as soon as one future is done.
ProbingCompleteFirst == Finished # {}

\* The loop "for future in as_completed(futures)" has yielded every future: the
\* with block is left (its shutdown(wait=True) finds every work item done).
\* future.result() of a test that returned does nothing, so only the futures
\* that raise are steps of the loop (YieldRaised).
ProbingComplete ==
    /\ Finished = TestNames
    /\ \A t \in TestNames : tstate[t] = "raised" => t \in caught

\* A grouping that opens a group at every finding.
TypesPerFinding(vulns, seen) == [ i \in DOMAIN vulns |-> vulns[i].type ]

\* vuln_by_type of report_results: the types in first-seen order.
RECURSIVE TypesInOrder(_, _)
TypesInOrder(vulns, seen) ==
    IF vulns = << >> THEN << >>
    ELSE IF Head(vulns).type \in seen THEN TypesInOrder(Tail(vulns), seen)
    ELSE << Head(vulns).type >>
         \o TypesInOrder(Tail(vulns), seen \cup { Head(vulns).type })

OfType(vulns, type) == SelectSeq(vulns, LAMBDA v : v.type = type)

RECURSIVE GroupLines(_, _)
GroupLines(types, vulns) ==
    IF types = << >> THEN << >>
    ELSE LET g == OfType(vulns, Head(types))
         IN  << [ kind |-> "group", type |-> Head(types), count |-> Len(g) ] >>
             \o [ i \in DOMAIN g |-> [ kind |-> "item", index |-> i, vuln |-> g[i] ] ]
             \o GroupLines(Tail(types), vulns)

\* The lines report_results prints.
ReportLines(vulns, techs) ==
    << [ kind |-> "completed" ],
       [ kind |-> "duration" ],
       [ kind |-> "technologies", list |-> techs ],
       [ kind |-> "total", count |-> Len(vulns) ] >>
    \o (IF vulns = << >>
           THEN << [ kind |-> "none_found" ] >>
           ELSE GroupLines(TypesInOrder(vulns, {}), vulns)
                \o << [ kind |-> "finished" ] >>)

\* ------------------------------------------- the risk assessment calculator
\* DEFAULT_RISK_LEVELS
RiskLevels == << "Low", "Medium", "High" >>

\* DEFAULT_RISK_MATRIX[likelihood][impact]: each entry of the table is the
\* product of the ranks of its two levels.
LevelValue(level) ==
    CASE level = "Low"    -> 1
      [] level = "Medium" -> 2
      [] level = "High"   -> 3

RiskMatrix(likelihood, impact) == LevelValue(likelihood) * LevelValue(impact)

\* PRIORITY_THRESHOLDS
ThresholdHigh == 5
ThresholdMedium == 2

\* What a call returns: a value, or raised with the exception's name.
Returned(v) == [ raised |-> "", value |-> v ]
Raised(e) == [ raised |-> e, value |-> 0 ]

\* validate_input, then risk_matrix[likelihood][impact]
calculate_risk(likelihood, impact) ==
    IF likelihood \notin SeqToSet(RiskLevels) \/ impact \notin SeqToSet(RiskLevels)
       THEN Raised("ValueError")
       ELSE Returned(RiskMatrix(likelihood, impact))

\* A comparison that lets the threshold itself through.
calculate_priority_inclusive(score) ==
    IF score >= ThresholdHigh THEN "High"
    ELSE IF score >= ThresholdMedium THEN "Medium"
    ELSE "Low"

calculate_priority(score) ==
    IF score > ThresholdHigh THEN "High"
    ELSE IF score > ThresholdMedium THEN "Medium"
    ELSE "Low"

\* No call of the calculator has been made.
NoRisk == [ score |-> 0, likelihood |-> "", impact |-> "" ]
NoCall == [ op |-> "", raised |-> "", score |-> 0, priority |-> "" ]

\* ------------------------------------------------------ src/honeypot.py
\* Most listen_on_port threads of one port that have not yet called bind.
MaxPending == 1
\* Most connections logged.
MaxLog == 1

\* self.ports of __init__.
DefaultPorts == << 22, 80, 443, 3389 >>

\* The texts of the ports field explored, after split(","): "22", " 8080,x",
\* "22, 8080", "-1,22", "x", "x,-1" and the empty text.
PortTexts ==
    { << "22" >>, << " 8080", "x" >>, << "22", " 8080" >>, << "-1", "22" >>,
      << "x" >>, << "x", "-1" >>, << "" >> }

\* port.strip()
Strip(piece) == IF piece = " 8080" THEN "8080" ELSE piece

\* str.isdigit(): a sign is no digit and the empty string has none.
IsDigit(str) == str \in { "22", "8080" }

\* int(str) of a string of digits.
IntOf(str) == CASE str = "22" -> 22 [] str = "8080" -> 8080

\* Line 195: [int(port.strip()) for port in ports_text.split(",")
\*            if port.strip().isdigit()]
RECURSIVE ParsePorts(_)
ParsePorts(text) ==
    IF text = << >> THEN << >>
    ELSE (IF IsDigit(Strip(Head(text))) THEN << IntOf(Strip(Head(text))) >> ELSE << >>)
         \o ParsePorts(Tail(text))

AllPorts == SeqToSet(DefaultPorts) \cup { 22, 8080 }

\* No listen_on_port thread: none before bind, none in accept.
NoListener == [ started |-> 0, accepting |-> 0 ]

\* How many times the port is in the list.
CountPort(ps, p) == Cardinality({ i \in DOMAIN ps : ps[i] = p })

\* Lines 220-222: one thread started for each element of self.ports.
ThreadsStarted(ls, ps) ==
    [ p \in AllPorts |-> [ ls[p] EXCEPT !.started = @ + CountPort(ps, p) ] ]

\* What a call leaves in self.running and in the threads.
Hp(r, ls) == [ running |-> r, listeners |-> ls ]

\* start_honeypot: nothing when running, else the threads and running = True.
start_honeypot(r, ls, ps) ==
    IF r THEN Hp(r, ls) ELSE Hp(TRUE, ThreadsStarted(ls, ps))

\* stop_honeypot: nothing when stopped, else running = False; no thread that
\* waits in accept is woken.
stop_honeypot(r, ls) == IF ~r THEN Hp(r, ls) ELSE Hp(FALSE, ls)

\* Lines 201-209 of save_configuration: stop when running, store the ports,
\* start when running, the second test reading self.running as the stop left it.
save_configuration(r, ls, new_ports) ==
    LET stopped == IF r THEN stop_honeypot(r, ls) ELSE Hp(r, ls)
    IN  IF stopped.running
           THEN start_honeypot(stopped.running, stopped.listeners, new_ports)
           ELSE stopped

\* A honeypot window that has been constructed.
HoneypotFresh ==
    /\ running = FALSE
    /\ ports = DefaultPorts
    /\ listeners = [ p \in AllPorts |-> NoListener ]
    /\ log_entries = 0

\* The other programs of the repository are not in use.
ToolsIdle ==
    /\ risk_in = NoRisk
    /\ risk_out = NoCall
    /\ HoneypotFresh

envv == << max_threads, net, site >>
crawlv == << links_to_ignore, link_iter, forms >>
poolv == << submitted, work_queue, num_threads, idle_semaphore, tstate, tplan, tpos,
           starts >>
loopv == << caught >>
repv == << report, reports >>
discv == << fp_done, crawl_done >>
fpv == << auth_creds, answers, requests, fp_runs, tech_first >>
argv == << url_arg, auth_arg >>
pagev == << page, crawl_idx >>
hpv == << running, ports, listeners, log_entries >>
toolv == << risk_in, risk_out, hpv >>
sidev == << fpv, argv, pagev, toolv >>

\* The fields of a scanner that has been constructed and not used: what
\* crawl fills, the list of findings, and the rest.
CrawlFresh ==
    /\ links_to_ignore = {}
    /\ link_iter = << >>
    /\ forms = << >>

RestFresh ==
    /\ hung = {}
    /\ technologies = << >>
    /\ submitted = 0
    /\ work_queue = << >>
    /\ num_threads = 0
    /\ idle_semaphore = 0
    /\ tstate = [ t \in TestNames |-> "new" ]
    /\ tplan = [ t \in TestNames |-> Plan(<< >>, "new") ]
    /\ tpos = [ t \in TestNames |-> 0 ]
    /\ starts = [ t \in TestNames |-> 0 ]
    /\ caught = {}
    /\ report = << >>
    /\ reports = 0
    /\ fp_done = FALSE
    /\ crawl_done = FALSE

FieldsFresh ==
    /\ CrawlFresh
    /\ vulnerabilities = << >>
    /\ RestFresh

\* A scanner that has been constructed: scan() has not been called.
ScanFresh ==
    /\ pc = "idle"
    /\ FieldsFresh

\* The scans that take the links and forms of the site in one step do not
\* walk the tags of a page.
EmptyPage == [ anchors |-> << >>, formtags |-> << >>, scripts |-> << >> ]

PageUnread ==
    /\ page = EmptyPage
    /\ crawl_idx = 0

\* The command line of the scans explored: -u http://t and no --auth.
ArgsPlain ==
    /\ url_arg = target_url
    /\ auth_arg = AbsentArg

\* No site content matters when the target cannot be read.
Init ==
    /\ max_threads \in ThreadArgs
    /\ net \in NetStates
    /\ site \in Sites
    /\ net # "up" => site = [ profile |-> Hardened, forms |-> << >> ]
    /\ auth_creds = NoAuth
    /\ answers = NoAnswers
    /\ FpFresh
    /\ ToolsIdle
    /\ ArgsPlain
    /\ PageUnread
    /\ ScanFresh

\* scanner.scan() is called.
StartScan ==
    /\ pc = "idle"
    /\ pc' = AfterStep(pc)
    /\ UNCHANGED << envv, sidev, hung, technologies, crawlv, vulnerabilities, poolv, loopv,
                    repv, discv >>

\* discover_technologies: its first statement is self.session.get(target_url).
DiscoverTechnologies ==
    /\ pc = "discover_technologies"
    /\ hung = {}
    /\ IF SessionOutcome = "hang"
          THEN /\ hung' = { "main" }
               /\ UNCHANGED << pc, technologies, fp_done >>
          ELSE /\ technologies' = IF SessionOutcome = "ok"
                                     THEN technologies \o FingerprintLabels
                                     ELSE technologies
               /\ fp_done' = TRUE
               /\ pc' = AfterStep(pc)
               /\ UNCHANGED hung
    /\ UNCHANGED << envv, sidev, crawlv, vulnerabilities, poolv, loopv, repv, crawl_done >>

\* crawl: its first statement is self.session.get(target_url).
Crawl ==
    /\ pc = "crawl"
    /\ hung = {}
    /\ IF SessionOutcome = "hang"
          THEN /\ hung' = { "main" }
               /\ UNCHANGED << pc, crawlv, crawl_done >>
          ELSE /\ IF SessionOutcome = "ok"
                     THEN /\ links_to_ignore' = links_to_ignore \cup site.profile.links
                          /\ link_iter' \in Permutations3(links_to_ignore')
                          /\ forms' = forms \o site.forms
                     ELSE UNCHANGED crawlv
               /\ crawl_done' = TRUE
               /\ pc' = AfterStep(pc)
               /\ UNCHANGED hung
    /\ UNCHANGED << envv, sidev, technologies, vulnerabilities, poolv, loopv, repv, fp_done >>

\* with ThreadPoolExecutor(max_workers=...): the constructor raises ValueError
\* for max_workers <= 0, and nothing in scan() or its caller catches it.
CreateExecutor ==
    /\ pc = "executor"
    /\ pc' = IF PoolSize <= 0 THEN "crashed" ELSE AfterStep(pc)
    /\ UNCHANGED << envv, sidev, hung, technologies, crawlv, vulnerabilities, poolv, loopv,
                    repv, discv >>

\* futures = [executor.submit(test) for test in tests], as one step: every
\* work item is queued in the order of the list. A worker can take a test only
\* once it is submitted and the workers take them in queue order, so the runs
\* in which a worker acts between two submit calls order the workers' steps as
\* some run of this step followed by the same worker steps does.
Submit ==
    /\ pc = "submit"
    /\ submitted' = NumTests
    /\ work_queue' = work_queue \o Tests
    /\ tstate' = [ t \in TestNames |-> "queued" ]
    /\ LET pool == AfterSubmits(NumTests, num_threads, idle_semaphore)
       IN  /\ num_threads' = pool.threads
           /\ idle_semaphore' = pool.idle
    /\ pc' = AfterStep(pc)
    /\ UNCHANGED << envv, sidev, hung, technologies, crawlv, vulnerabilities, tplan, tpos,
                    starts, loopv, repv, discv >>

\* A worker thread that runs no work item takes the next one from the queue
\* and calls the test method. What the method will do is fixed from here on:
\* the forms, the links and the target's answers do not change during probing.
WorkerTake ==
    /\ work_queue # << >>
    /\ Cardinality(Running) < num_threads
    /\ LET t == Head(work_queue)
       IN  /\ tstate' = [ tstate EXCEPT ![t] = "running" ]
           /\ tplan' = [ tplan EXCEPT ![t] = Run(t) ]
           /\ starts' = [ starts EXCEPT ![t] = @ + 1 ]
    /\ work_queue' = Tail(work_queue)
    /\ UNCHANGED << envv, sidev, pc, hung, technologies, crawlv, vulnerabilities, submitted,
                    num_threads, idle_semaphore, tpos, loopv, repv, discv >>

\* A running test appends its next finding to self.vulnerabilities.
TestAppend(t) ==
    /\ tstate[t] = "running"
    /\ tpos[t] < Len(tplan[t].appends)
    /\ vulnerabilities' = AppendFinding(vulnerabilities, tplan[t].appends[tpos[t] + 1])
    /\ tpos' = [ tpos EXCEPT ![t] = @ + 1 ]
    /\ UNCHANGED << envv, sidev, pc, hung, technologies, crawlv, submitted, work_queue,
                    num_threads, idle_semaphore, tstate, tplan, starts, loopv, repv,
                    discv >>

\* A running test returns or raises; its worker stores the result or the
\* exception in the future and goes idle.
TestEnd(t) ==
    /\ tstate[t] = "running"
    /\ tpos[t] = Len(tplan[t].appends)
    /\ tplan[t].outcome \in { "returned", "raised" }
    /\ tstate' = [ tstate EXCEPT ![t] = tplan[t].outcome ]
    /\ idle_semaphore' = idle_semaphore + 1
    /\ UNCHANGED << envv, sidev, pc, hung, technologies, crawlv, vulnerabilities, submitted,
                    work_queue, num_threads, tplan, tpos, starts, loopv, repv, discv >>

\* An except clause that submits the failed test again.
QueueAfterErrorRetry(t) == Append(work_queue, t)

\* The except clause of the as_completed loop prints the error and nothing
\* else: the executor's queue is left as it is.
QueueAfterError(t) == work_queue

\* as_completed yields a finished future whose test raised: future.result()
\* raises and the except clause prints the error.
YieldRaised(t) ==
    /\ pc = "as_completed"
    /\ tstate[t] = "raised"
    /\ t \notin caught
    /\ caught' = caught \cup { t }
    /\ work_queue' = QueueAfterError(t)
    /\ UNCHANGED << envv, sidev, pc, hung, technologies, crawlv, vulnerabilities, submitted,
                    num_threads, idle_semaphore, tstate, tplan, tpos, starts, repv,
                    discv >>

\* The with block is left.
LeaveWith ==
    /\ pc = "as_completed"
    /\ ProbingComplete
    /\ pc' = AfterStep(pc)
    /\ UNCHANGED << envv, sidev, hung, technologies, crawlv, vulnerabilities, poolv, loopv,
                    repv, discv >>

\* report_results
ReportResults ==
    /\ pc = "report_results"
    /\ report' = ReportLines(vulnerabilities, technologies)
    /\ reports' = reports + 1
    /\ pc' = AfterStep(pc)
    /\ UNCHANGED << envv, sidev, hung, technologies, crawlv, vulnerabilities, poolv, loopv,
                    discv >>

Next ==
    \/ StartScan
    \/ DiscoverTechnologies
    \/ Crawl
    \/ CreateExecutor
    \/ Submit
    \/ WorkerTake
    \/ \E t \in TestNames : TestAppend(t)
    \/ \E t \in TestNames : TestEnd(t)
    \/ \E t \in TestNames : YieldRaised(t)
    \/ LeaveWith
    \/ ReportResults

Spec == Init /\ [][Next]_vars

\* ------------------------------------------------------------ the phases
\* The phase of the orchestrator's state machine a statement of scan() belongs
\* to: 0 Idle, 1 Discovering, 2 Probing, 3 Aggregating, 4 Done. An exception
\* that leaves scan() while the executor is built ends the scan in Probing.
PhaseIdx(p) ==
    CASE p = "idle"                                -> 0
      [] p \in { "discover_technologies", "crawl" } -> 1
      [] p \in { "executor", "submit", "as_completed", "crashed" } -> 2
      [] p = "report_results"                      -> 3
      [] p = "done"                                -> 4

\* The vulnerability type a test method writes into its findings ("" for the
\* two methods that only pass).
TypeOfTest(t) ==
    CASE t = "test_sql_injection"          -> "SQL Injection"
      [] t = "test_xss"                    -> "Cross-Site Scripting (XSS)"
      [] t = "test_directory_traversal"    -> "Directory Traversal"
      [] t = "test_sensitive_files"        -> "Sensitive File Exposure"
      [] t = "test_command_injection"      -> "Command Injection"
      [] t = "test_ssrf"                   -> "SSRF Potential"
      [] t = "test_idor"                   -> ""
      [] t = "test_csrf"                   -> "Potential CSRF (Missing Token)"
      [] t = "test_http_methods"           -> "Insecure HTTP Method Allowed"
      [] t = "test_cors"                   -> "CORS Misconfiguration"
      [] t = "test_security_headers"       -> "Missing Security Headers"
      [] t = "test_jwt_issues"             -> ""
      [] t = "test_clickjacking"           -> "Clickjacking Potential"
      [] t = "test_server_info_disclosure" -> "Information Disclosure"

\* The tests that only need the base URL.
BaseUrlTests ==
    { "test_security_headers", "test_clickjacking", "test_server_info_disclosure",
      "test_cors", "test_http_methods" }

ProbingOver == pc \in { "report_results", "done" }

\* ---------------------------------------------------------------- claims

\* C1: in a scan whose tests were handed to the executor, no test is ever
\* started twice, the probing can always go on until the with block is left
\* (no test's exception stops the others from being taken and run), and when
\* it is left every one of the 14 tests has been started exactly once and has
\* returned or raised.
C1_EachTestRunsOnce ==
    /\ \A t \in TestNames : starts[t] <= 1
    /\ pc = "as_completed" => ENABLED Next
    /\ ProbingOver =>
          \A t \in TestNames : starts[t] = 1 /\ tstate[t] \in { "returned", "raised" }

\* A scan with two workers in which test_csrf raised and the other thirteen
\* tests returned.
C1_Witness ==
    /\ pc = "done"
    /\ max_threads = 2
    /\ tstate["test_csrf"] = "raised"
    /\ "test_csrf" \in caught
    /\ \A t \in TestNames \ { "test_csrf" } : tstate[t] = "returned" /\ starts[t] = 1

\* C2: when the findings are handed to report_results, they hold no finding
\* of a test that raised.
C2_RaisedTestContributesNothing ==
    ProbingOver =>
        \A t \in TestNames :
            tstate[t] = "raised" => OfType(vulnerabilities, TypeOfTest(t)) = << >>

\* C3: the number of tests started and not finished never exceeds max_threads
\* (and is zero when no executor can be built).
C3_InFlightBounded ==
    Cardinality(Running) <= (IF max_threads > 0 THEN max_threads ELSE 0)

\* The pool is full and a test waits in the queue.
C3_Witness ==
    /\ max_threads = 2
    /\ Cardinality(Running) = 2
    /\ work_queue # << >>

\* C4: report_results runs at most once, it starts only when every test has
\* returned or raised, nothing is appended to the findings once it has been
\* called, and a scan that is done has run it exactly once.
C4_ReportOnceAfterProbing ==
    [][ /\ reports' <= 1
        /\ (reports' > reports => Finished = TestNames)
        /\ (pc' = "report_results" => Finished' = TestNames)
        /\ (ProbingOver => vulnerabilities' = vulnerabilities)
        /\ (pc' = "done" => reports' = 1) ]_vars

\* A finished scan with two workers that reported several findings.
C4_Witness ==
    /\ pc = "done"
    /\ reports = 1
    /\ max_threads = 2
    /\ Len(vulnerabilities) >= 2

\* C5: the phase never goes back and never skips a phase, the crawl starts
\* only after discover_technologies has returned, and a test is submitted or
\* started only after crawl has returned; also when the target is down.
C5_PhasesInOrder ==
    [][ /\ PhaseIdx(pc') \in { PhaseIdx(pc), PhaseIdx(pc) + 1 }
        /\ (pc' = "crawl" => fp_done')
        /\ (PhaseIdx(pc') >= 2 => fp_done' /\ crawl_done')
        /\ ((\E t \in TestNames : tstate'[t] # "new") => crawl_done') ]_vars

\* A scan of a target that is down reached Done after both discovery steps.
C5_Witness ==
    /\ pc = "done"
    /\ net = "down"
    /\ fp_done
    /\ crawl_done

\* C6: when probing is over, the findings hold, for every test, as many
\* findings of its type as the test appends when it runs alone, and as many
\* findings in all as the 14 tests append one after another.
C6_NoAppendLost ==
    ProbingOver =>
        /\ \A t \in TestNames :
               TypeOfTest(t) # "" =>
                   Len(OfType(vulnerabilities, TypeOfTest(t))) = Len(Run(t).appends)
        /\ Len(vulnerabilities)
               = Len(Run(Tests[1]).appends) + Len(Run(Tests[2]).appends)
                 + Len(Run(Tests[3]).appends) + Len(Run(Tests[4]).appends)
                 + Len(Run(Tests[5]).appends) + Len(Run(Tests[6]).appends)
                 + Len(Run(Tests[7]).appends) + Len(Run(Tests[8]).appends)
                 + Len(Run(Tests[9]).appends) + Len(Run(Tests[10]).appends)
                 + Len(Run(Tests[11]).appends) + Len(Run(Tests[12]).appends)
                 + Len(Run(Tests[13]).appends) + Len(Run(Tests[14]).appends)

\* Two tests appended in turn: SQL, XSS, SQL.
C6_Witness ==
    /\ pc = "done"
    /\ max_threads = 2
    /\ Len(vulnerabilities) >= 3
    /\ vulnerabilities[1].type = "SQL Injection"
    /\ vulnerabilities[2].type = "Cross-Site Scripting (XSS)"
    /\ vulnerabilities[3].type = "SQL Injection"

\* C7: no test method raises to its caller.
C7_NoTestRaises == \A t \in TestNames : tstate[t] # "raised"

\* C8: scan() never ends with an unhandled error before report_results.
C8_ScanNeverCrashes == pc # "crashed"

\* C9: when the crawl failed (target down) and the scan is done, the tests
\* that need only the base URL have run and the report holds a line for the
\* number of links and a line for the number of forms discovered.
C9_ReportNotesEmptyCrawl ==
    (pc = "done" /\ net = "down") =>
        /\ \A t \in BaseUrlTests : starts[t] = 1 /\ t \in Finished
        /\ reports = 1
        /\ \E i \in DOMAIN report : report[i].kind = "links"
        /\ \E i \in DOMAIN report : report[i].kind = "forms"

\* C10: no thread of the scan waits for ever in a request: every request has
\* a timeout.
C10_NoRequestBlocksForever == hung = {}

\* ================================================ fingerprinting on its own
\* How many times discover_technologies is called on one scanner.
MaxFpRuns == 2

\* A scanner built for the target, with or without --auth, and a target that
\* answers each request of fingerprinting in one of the ways of AnswerSets.
FpInit ==
    /\ max_threads = 1
    /\ net = "up"
    /\ site = [ profile |-> Hardened, forms |-> << >> ]
    /\ auth_creds \in { NoAuth, SomeAuth }
    /\ answers \in AnswerSets
    /\ FpFresh
    /\ ToolsIdle
    /\ ArgsPlain
    /\ PageUnread
    /\ ScanFresh

\* scanner.discover_technologies() is called and returns: the except clause
\* at line 106 catches every exception of the body.
FpRun ==
    /\ fp_runs < MaxFpRuns
    /\ LET r == discover_technologies(answers)
       IN  /\ technologies' = technologies \o r.labels
           /\ requests' = requests \o r.sent
           /\ tech_first' = IF fp_runs = 0 THEN technologies' ELSE tech_first
    /\ fp_runs' = fp_runs + 1
    /\ fp_done' = TRUE
    /\ UNCHANGED << envv, toolv, argv, pagev, auth_creds, answers, pc, hung, crawlv,
                    vulnerabilities, poolv, loopv, repv, crawl_done >>

FpNext == FpRun

FpSpec == FpInit /\ [][FpNext]_vars

\* C11: when --auth is given, every request the scanner sends carries the
\* credentials, the session's User-Agent and the session's cookie jar: none is
\* sent outside the session.
C11_EveryRequestThroughSession ==
    auth_creds # NoAuth =>
        \A i \in DOMAIN requests :
            /\ requests[i].via = "session"
            /\ requests[i].auth = auth_creds
            /\ requests[i].agent = SessionUserAgent
            /\ requests[i].jar

\* C17: fingerprinting is idempotent: after discover_technologies has run
\* twice against the same answers, self.technologies equals, order included,
\* the list it held after the first run.
C17_FingerprintIdempotent ==
    fp_runs >= 2 => technologies = tech_first

\* C18: a failure probing one well-known path aborts neither the other paths
\* nor the later rules: every path that answers 200 is labelled and every
\* framework word of the home page is reported.
C18_PathFailureIsolated ==
    ( /\ fp_runs = 1
      /\ answers.home = "ok"
      /\ \E q \in SeqToSet(TechPaths) : answers.paths[q] = "error" )
    => /\ \A q \in SeqToSet(TechPaths) :
              answers.paths[q] = "200"
                  => << TechOfPath(q) >> \in SeqToSet(technologies)
       /\ \A f \in answers.body :
              << LabelOfFramework(f) >> \in SeqToSet(technologies)
       /\ Len(SelectSeq(requests, LAMBDA r : r.via = "session")) = 2

\* ========================================================= the command line
\* The longest --auth string explored.
MaxAuthLen == 3

RECURSIVE Strings(_)
Strings(n) ==
    IF n = 0 THEN { << >> }
    ELSE Strings(n - 1)
             \cup { s \o << c >> : s \in { t \in Strings(n - 1) : Len(t) = n - 1 },
                                   c \in { "u", ":" } }

\* The values of args.auth: None, or any string of letters and colons.
AuthArgs == { AbsentArg } \cup Strings(MaxAuthLen)

\* The values of args.url: argparse takes any string.
UrlArgs ==
    { << "http://t" >>, << "http://t", "/" >>, << "t" >>, << "ftp://t" >>,
      << "http://" >>, << >> }

\* A URL requests can send a request to: scheme http or https and a host.
WellFormedUrl(u) == u # << >> /\ Head(u) = "http://t"

\* target_url.rstrip('/')
RECURSIVE RStripSlash(_)
RStripSlash(u) ==
    IF u # << >> /\ u[Len(u)] = "/" THEN RStripSlash(SubSeq(u, 1, Len(u) - 1)) ELSE u

\* if args.auth: an absent and an empty --auth are both false.
Truthy(a) == a # AbsentArg /\ a # << >>

\* The program has been started with some command line; the scanner is built
\* by line 504 whatever the URL is. requests raises on every request to a URL
\* without http(s) scheme or host, as it does when the target is down.
MainInit ==
    /\ url_arg \in UrlArgs
    /\ auth_arg \in AuthArgs
    /\ max_threads = 1
    /\ net \in { "up", "down" }
    /\ ~WellFormedUrl(url_arg) => net = "down"
    /\ WellFormedUrl(url_arg) => RStripSlash(url_arg) = target_url
    /\ site = [ profile |-> Hardened, forms |-> << LoginForm, SubmitForm >> ]
    /\ auth_creds = NoAuth
    /\ answers = NoAnswers
    /\ FpFresh
    /\ ToolsIdle
    /\ PageUnread
    /\ FieldsFresh
    /\ pc = "main"

\* Lines 504-513: the scanner is built, then --auth is read. The unpacking of
\* a split that has not exactly two parts raises ValueError; the bare except
\* prints the message and calls exit(1). Line 515, scanner.scan(), is next
\* otherwise.
Main ==
    /\ pc = "main"
    /\ IF Truthy(auth_arg)
          THEN IF Len(Split(auth_arg)) = 2
                  THEN /\ auth_creds' = Split(auth_arg)
                       /\ pc' = "idle"
                  ELSE /\ pc' = "exit_1"
                       /\ UNCHANGED auth_creds
          ELSE /\ pc' = "idle"
               /\ UNCHANGED auth_creds
    /\ UNCHANGED << envv, toolv, argv, pagev, answers, requests, fp_runs, tech_first, hung,
                    technologies, crawlv, vulnerabilities, poolv, loopv, repv, discv >>

MainNext ==
    \/ Main
    \/ Next

MainSpec == MainInit /\ [][MainNext]_vars

\* The scan has not begun: no phase entered, no test started, nothing reported.
ScanNotBegun ==
    /\ pc \in { "main", "exit_1" }
    /\ ~fp_done /\ ~crawl_done
    /\ \A t \in TestNames : starts[t] = 0
    /\ reports = 0 /\ report = << >>

\* C12: a credential string is accepted only if its split on ":" has exactly
\* two parts; for every other string given as --auth the program reports a
\* configuration error and stops before the scan: no request, no report.
C12_OnlyPairsPassMain ==
    /\ auth_creds # NoAuth => Len(Split(auth_arg)) = 2 /\ auth_creds = Split(auth_arg)
    /\ (pc # "main" /\ auth_arg # AbsentArg /\ Len(Split(auth_arg)) # 2)
           => pc = "exit_1" /\ ScanNotBegun

\* C13: a target URL that is not a well-formed http(s) URL fails fast: the
\* scan never enters discovery and no test is run.
C13_MalformedUrlFailsFast ==
    ~WellFormedUrl(url_arg) => ScanNotBegun

\* ========================================================= crawl, tag by tag
\* The most tags (anchors, forms and scripts together) a page explored holds.
MaxTags == 2

\* tag.get(attr) of an attribute the tag does not have (None).
NoAttr == << NoneValue >>

\* A reference urljoin cannot parse: it raises ValueError (Invalid IPv6 URL).
BadRef == << "http://[" >>

\* The href values explored; a reference is the sequence of its pieces.
HrefPool ==
    { NoAttr, << "/about" >>, << "javascript:", "void(0)" >>, << "http://evil" >>,
      << "JavaScript:", "open('", "http://t", "/x')" >>, BadRef }

\* The first pieces that carry a scheme: such a reference is absolute.
SchemePieces ==
    { "http://t", "http://evil", "https://api.other", "javascript:", "JavaScript:",
      "mailto:", "tel:", "http://[" }

IsAbsoluteRef(h) == h # << >> /\ Head(h) \in SchemePieces

\* href.startswith(('javascript:', 'mailto:', 'tel:')): the case matters.
SkipSchemes == { "javascript:", "mailto:", "tel:" }
StartsWithSkipScheme(h) == h # << >> /\ Head(h) \in SkipSchemes

\* urljoin(self.target_url, ref): an absolute reference is returned as it is,
\* a path is put after the base, the empty reference gives the base.
urljoin(base, ref) == IF IsAbsoluteRef(ref) THEN ref ELSE base \o ref

UrljoinRaises(ref) == \E i \in DOMAIN ref : ref[i] = Head(BadRef)

\* self.target_url in full_url: the base occurs somewhere in the URL.
InUrl(base, u) ==
    \E i \in 1..(Len(u) - Len(base) + 1) : SubSeq(u, i, i + Len(base) - 1) = base

\* str.upper() on the method attributes the model uses.
Upper(m) ==
    CASE m = "get"    -> "GET"
      [] m = "post"   -> "POST"
      [] m = "Post"   -> "POST"
      [] m = "put"    -> "PUT"
      [] m = "dialog" -> "DIALOG"
      [] OTHER        -> m

\* The method attributes explored, "<None>" for a form without one.
MethodAttrs == { NoneValue, "post", "Post", "GET", "put", "dialog" }

\* The <input> tags of the forms explored: "<None>" for an absent attribute.
InputTags ==
    << [ name |-> "username", type |-> NoneValue, value |-> NoneValue ],
       [ name |-> NoneValue, type |-> "submit", value |-> "Send" ] >>

FormTagPool ==
    { [ action |-> a, method |-> m, inputs |-> InputTags ] :
          a \in { NoAttr, << "/login" >> }, m \in MethodAttrs }
        \cup { [ action |-> BadRef, method |-> "post", inputs |-> InputTags ] }

\* The <script> tags explored: whether the tag has a src, and the strings the
\* pattern fetch("...") finds in its text, in order.
ScriptPool ==
    { [ src |-> TRUE, fetches |-> << << "/api/v0" >> >> ],
      [ src |-> FALSE, fetches |-> << << "/api/v1" >> >> ],
      [ src |-> FALSE, fetches |-> << << "https://api.other", "/v1", "?", "q", "=", "1" >>, BadRef >> ] }

Pages ==
    { pg \in [ anchors : SeqsUpTo(HrefPool, MaxTags),
               formtags : SeqsUpTo(FormTagPool, MaxTags),
               scripts : SeqsUpTo(ScriptPool, MaxTags) ] :
        Len(pg.anchors) + Len(pg.formtags) + Len(pg.scripts) <= MaxTags }

\* Lines 133-138: what is stored for one <input>.
InputDetails(tag) ==
    [ name |-> tag.name,
      type |-> IF tag.type = NoneValue THEN "text" ELSE tag.type,
      value |-> IF tag.value = NoneValue THEN "" ELSE tag.value ]

\* Lines 127-131: form_details of one <form>.
FormDetails(tag) ==
    [ action |-> urljoin(target_url, IF tag.action = NoAttr THEN << >> ELSE tag.action),
      method |-> Upper(IF tag.method = NoneValue THEN "get" ELSE tag.method),
      inputs |-> [ i \in DOMAIN tag.inputs |-> InputDetails(tag.inputs[i]) ] ]

\* Lines 148-153: the endpoints of one inline script, up to the first that
\* urljoin cannot parse.
RECURSIVE ApiLoop(_, _)
ApiLoop(apis, links) ==
    IF apis = << >> THEN [ links |-> links, raised |-> FALSE ]
    ELSE IF UrljoinRaises(Head(apis)) THEN [ links |-> links, raised |-> TRUE ]
    ELSE ApiLoop(Tail(apis), links \cup { urljoin(target_url, Head(apis)) })

\* Lines 155-156: the except clause prints the error; what crawl has stored is
\* what it leaves.
AfterExceptRollback(links, fs) == [ links |-> {}, forms |-> << >> ]
AfterExcept(links, fs) == [ links |-> links, forms |-> fs ]

\* A scanner about to crawl a page of Pages; what a target that is down would
\* have served does not matter.
CrawlInit ==
    /\ max_threads = 1
    /\ net \in { "up", "down" }
    /\ site = [ profile |-> Hardened, forms |-> << >> ]
    /\ page \in Pages
    /\ net = "down" => page = EmptyPage
    /\ crawl_idx = 0
    /\ auth_creds = NoAuth
    /\ answers = NoAnswers
    /\ FpFresh
    /\ ToolsIdle
    /\ ArgsPlain
    /\ FieldsFresh
    /\ pc = "crawl_get"

\* Lines 112-113: the GET of the home page and its parse.
CrawlGet ==
    /\ pc = "crawl_get"
    /\ IF SessionOutcome = "error"
          THEN pc' = "crawl_except" /\ UNCHANGED crawl_idx
          ELSE pc' = "crawl_links" /\ crawl_idx' = 1
    /\ UNCHANGED << envv, toolv, fpv, argv, page, hung, technologies, crawlv,
                    vulnerabilities, poolv, loopv, repv, discv >>

\* Lines 116-122: one <a> tag, or the end of the loop.
CrawlLink ==
    /\ pc = "crawl_links"
    /\ IF crawl_idx > Len(page.anchors)
          THEN /\ pc' = "crawl_forms"
               /\ crawl_idx' = 1
               /\ UNCHANGED links_to_ignore
          ELSE LET href     == page.anchors[crawl_idx]
                   full_url == urljoin(target_url, href)
               IN  IF href # NoAttr /\ href # << >> /\ ~StartsWithSkipScheme(href)
                      THEN IF UrljoinRaises(href)
                              THEN /\ pc' = "crawl_except"
                                   /\ UNCHANGED << crawl_idx, links_to_ignore >>
                              ELSE /\ links_to_ignore' =
                                          IF InUrl(target_url, full_url)
                                             THEN links_to_ignore \cup { full_url }
                                             ELSE links_to_ignore
                                   /\ crawl_idx' = crawl_idx + 1
                                   /\ UNCHANGED pc
                      ELSE /\ crawl_idx' = crawl_idx + 1
                           /\ UNCHANGED << pc, links_to_ignore >>
    /\ UNCHANGED << envv, toolv, fpv, argv, page, hung, technologies, link_iter, forms,
                    vulnerabilities, poolv, loopv, repv, discv >>

\* Lines 126-141: one <form> tag, or the end of the loop.
CrawlForm ==
    /\ pc = "crawl_forms"
    /\ IF crawl_idx > Len(page.formtags)
          THEN /\ pc' = "crawl_scripts"
               /\ crawl_idx' = 1
               /\ UNCHANGED forms
          ELSE LET tag == page.formtags[crawl_idx]
               IN  IF tag.action # NoAttr /\ UrljoinRaises(tag.action)
                      THEN /\ pc' = "crawl_except"
                           /\ UNCHANGED << crawl_idx, forms >>
                      ELSE /\ forms' = Append(forms, FormDetails(tag))
                           /\ crawl_idx' = crawl_idx + 1
                           /\ UNCHANGED pc
    /\ UNCHANGED << envv, toolv, fpv, argv, page, hung, technologies, links_to_ignore,
                    link_iter, vulnerabilities, poolv, loopv, repv, discv >>

\* Lines 144-153: one <script> tag, or the end of the loop and of the try block.
\* When crawl returns, the set of links has the order its readers will see.
CrawlScript ==
    /\ pc = "crawl_scripts"
    /\ IF crawl_idx > Len(page.scripts)
          THEN /\ pc' = "crawl_returned"
               /\ crawl_idx' = 0
               /\ crawl_done' = TRUE
               /\ link_iter' \in Permutations3(links_to_ignore)
               /\ UNCHANGED links_to_ignore
          ELSE LET script == page.scripts[crawl_idx]
                   r      == ApiLoop(script.fetches, links_to_ignore)
               IN  IF script.src
                      THEN /\ crawl_idx' = crawl_idx + 1
                           /\ UNCHANGED << pc, links_to_ignore, link_iter, crawl_done >>
                      ELSE /\ links_to_ignore' = r.links
                           /\ pc' = IF r.raised THEN "crawl_except" ELSE pc
                           /\ crawl_idx' = IF r.raised THEN crawl_idx ELSE crawl_idx + 1
                           /\ UNCHANGED << link_iter, crawl_done >>
    /\ UNCHANGED << envv, toolv, fpv, argv, page, hung, technologies, forms,
                    vulnerabilities, poolv, loopv, repv, fp_done >>

\* Lines 155-156: the except clause, then crawl returns to its caller.
CrawlExcept ==
    /\ pc = "crawl_except"
    /\ links_to_ignore' = AfterExcept(links_to_ignore, forms).links
    /\ link_iter' \in Permutations3(links_to_ignore')
    /\ forms' = AfterExcept(links_to_ignore, forms).forms
    /\ pc' = "crawl_returned"
    /\ crawl_done' = TRUE
    /\ UNCHANGED << envv, toolv, fpv, argv, pagev, hung, technologies,
                    vulnerabilities, poolv, loopv, repv, fp_done >>

CrawlNext ==
    \/ CrawlGet
    \/ CrawlLink
    \/ CrawlForm
    \/ CrawlScript
    \/ CrawlExcept

CrawlSpec == CrawlInit /\ [][CrawlNext]_vars

IsPrefix(s, t) == Len(s) <= Len(t) /\ SubSeq(t, 1, Len(s)) = s

\* C14: crawl never raises: when a request or a parse fails at any point, the
\* except clause is the only thing that runs before crawl returns, and every
\* link, form and endpoint stored before the failure is still stored.
C14_CrawlKeepsWhatItFound ==
    [][ /\ links_to_ignore \subseteq links_to_ignore'
        /\ IsPrefix(forms, forms')
        /\ pc = "crawl_except" => pc' = "crawl_returned" ]_vars

\* crawl has returned after a failure in the middle, with something stored.
C14_Witness ==
    /\ pc = "crawl_returned"
    /\ crawl_idx > 0
    /\ links_to_ignore # {} \/ forms # << >>

\* C15: every URL in the set of discovered links is absolute and contains the
\* target's base URL, and none comes from a javascript:, mailto: or tel: href.
C15_LinksOnTargetOnly ==
    \A u \in links_to_ignore :
        /\ IsAbsoluteRef(u)
        /\ InUrl(target_url, u)
        /\ Lower(Head(u)) \notin SkipSchemes

\* C16: the method stored for every form is exactly "GET" or "POST", whatever
\* the method attribute of the tag was.
C16_MethodGetOrPost ==
    \A i \in DOMAIN forms : forms[i].method \in { "GET", "POST" }

\* ============================================================ the scenarios
\* The login scenario: one login form, no token field, on LoginServer.
LoginScenario == [ profile |-> LoginServer, forms |-> << LoginForm >> ]

\* The targets of the scenarios: the login scenario, a hardened target with a
\* token-carrying form and a login form, one with a login form and a form
\* whose submit button has no name, and a leaky target with two forms, on
\* which several tests append more than one finding.
ScenarioSites ==
    { LoginScenario,
      [ profile |-> Hardened, forms |-> << CsrfTokenForm, LoginForm >> ],
      [ profile |-> Hardened, forms |-> << LoginForm, SubmitForm >> ],
      [ profile |-> Leaky, forms |-> << LoginForm, CsrfTokenForm >> ] }

\* A scan of a scenario target that answers, with at least one worker thread.
ScenarioInit ==
    /\ max_threads \in 1..MaxThreadsArg
    /\ net = "up"
    /\ site \in ScenarioSites
    /\ auth_creds = NoAuth
    /\ answers = NoAnswers
    /\ FpFresh
    /\ ToolsIdle
    /\ ArgsPlain
    /\ PageUnread
    /\ ScanFresh

ScenarioSpec == ScenarioInit /\ [][Next]_vars

CsrfType == "Potential CSRF (Missing Token)"

HasFieldNamed(form, name) == \E i \in DOMAIN form.inputs : form.inputs[i].name = name

\* The field names of the forms explored that name an anti-CSRF token.
CsrfLikeNames == { "csrf_token", "CSRFToken" }

\* C19: of two forms, one with a field named csrf_token and one with no
\* CSRF-like field name, test_csrf reports exactly one finding, for the second
\* form, and none for the form with the csrf_token field.
C19_TokenFormNotFlagged ==
    ( /\ tstate["test_csrf"] = "returned"
      /\ Len(forms) = 2
      /\ HasFieldNamed(forms[1], "csrf_token")
      /\ \A n \in CsrfLikeNames : ~HasFieldNamed(forms[2], n) )
    => OfType(vulnerabilities, CsrfType)
           = << Finding(CsrfType, forms[2].action, << "Form missing CSRF token" >>,
                        forms[2].action) >>

\* The lines of the report that show a finding of the type.
ReportItems(type) ==
    SelectSeq(report, LAMBDA l : l.kind = "item" /\ l.vuln.type = type)

\* C20: the report of a scan of the login scenario holds exactly one CSRF
\* finding, for the login form, and exactly one SQL Injection finding, located
\* at the form's URL, whose detail contains the payload ' OR '1'='1.
C20_LoginScenarioReport ==
    (pc = "done" /\ site = LoginScenario)
    => LET c == ReportItems(CsrfType)
           q == ReportItems("SQL Injection")
       IN  /\ Len(c) = 1 /\ c[1].vuln.url = LoginForm.action
           /\ Len(q) = 1 /\ q[1].vuln.url = LoginForm.action
           /\ SqlPayloads[3] \in SeqToSet(q[1].vuln.detail)

\* The scan of the login scenario has printed its report.
C20_Witness ==
    /\ pc = "done"
    /\ site = LoginScenario
    /\ reports = 1

\* =================================================== report_results alone
\* The most findings a reported list holds.
MaxVulns == 3

\* The findings the reported lists are made of: three types at two URLs.
FindingPool ==
    { Finding(type, url, << "d" >>, url) :
          type \in { "SQL Injection", "CORS Misconfiguration", CsrfType },
          url \in { target_url, ParamLink } }

\* A scanner whose tests have left some list of findings, about to report.
ReportInit ==
    /\ max_threads = 1
    /\ net = "up"
    /\ site = [ profile |-> Hardened, forms |-> << >> ]
    /\ vulnerabilities \in SeqsUpTo(FindingPool, MaxVulns)
    /\ auth_creds = NoAuth
    /\ answers = NoAnswers
    /\ FpFresh
    /\ ToolsIdle
    /\ ArgsPlain
    /\ PageUnread
    /\ CrawlFresh
    /\ RestFresh
    /\ pc = "report_results"

ReportNext == ReportResults

ReportSpec == ReportInit /\ [][ReportNext]_vars

\* The positions of the report's lines of one kind, and the first position of
\* a type in the list of findings.
LinesOfKind(kind) == { i \in DOMAIN report : report[i].kind = kind }
FirstOf(type) ==
    CHOOSE i \in DOMAIN vulnerabilities :
        /\ vulnerabilities[i].type = type
        /\ \A j \in 1..(i - 1) : vulnerabilities[j].type # type

RECURSIVE SumOfCounts(_)
SumOfCounts(lines) ==
    IF lines = << >> THEN 0
    ELSE (IF Head(lines).kind = "group" THEN Head(lines).count ELSE 0)
         + SumOfCounts(Tail(lines))

\* C21: the report groups the findings by type: one group per type present,
\* groups in the order in which the types first appear, under each group
\* exactly the findings of its type in their order in the list, and the total
\* printed equals the sum of the group sizes and the length of the list.
C21_ReportGroupsByType ==
    reports = 1 =>
        /\ \A i \in LinesOfKind("total") :
               /\ report[i].count = Len(vulnerabilities)
               /\ report[i].count = SumOfCounts(report)
        /\ \A k \in DOMAIN vulnerabilities :
               Cardinality({ g \in LinesOfKind("group") :
                                 report[g].type = vulnerabilities[k].type }) = 1
        /\ \A g \in LinesOfKind("group") :
               LET mine == SelectSeq(vulnerabilities,
                                     LAMBDA v : v.type = report[g].type)
               IN  /\ mine # << >>
                   /\ report[g].count = Len(mine)
                   /\ \A k \in 1..Len(mine) :
                          /\ report[g + k].kind = "item"
                          /\ report[g + k].index = k
                          /\ report[g + k].vuln = mine[k]
        /\ \A g, h \in LinesOfKind("group") :
               g < h => FirstOf(report[g].type) < FirstOf(report[h].type)
        /\ Cardinality(LinesOfKind("item")) = Len(vulnerabilities)

\* A list in which a type comes back after another one has been reported.
C21_Witness ==
    /\ reports = 1
    /\ Len(vulnerabilities) = 3
    /\ vulnerabilities[1].type = vulnerabilities[3].type
    /\ vulnerabilities[1].type # vulnerabilities[2].type

\* C22: at every moment of a scan, the findings of each test method stand in
\* self.vulnerabilities in the order in which the method generated them, the
\* order of its own loops, however the methods' appends interleave.
C22_OrderWithinTestKept ==
    \A t \in TestNames :
        TypeOfTest(t) # "" =>
            OfType(vulnerabilities, TypeOfTest(t))
                = SubSeq(tplan[t].appends, 1, tpos[t])

\* Two findings of one test with a finding of another test between them.
C22_Witness ==
    /\ pc = "done"
    /\ \E i, j, k \in DOMAIN vulnerabilities :
           /\ i < j /\ j < k
           /\ vulnerabilities[i].type = vulnerabilities[k].type
           /\ vulnerabilities[i].type # vulnerabilities[j].type
           /\ vulnerabilities[i] # vulnerabilities[k]

\* ========================================== the risk assessment calculator
\* The scores explored lie between -ScoreSpan and ScoreSpan.
ScoreSpan == 12

\* A score for calculate_priority and a likelihood and an impact for
\* calculate_risk, "X" being a level the matrix does not have.
RiskInit ==
    /\ risk_in \in [ score : (0 - ScoreSpan)..ScoreSpan,
                     likelihood : SeqToSet(RiskLevels) \cup { "X" },
                     impact : SeqToSet(RiskLevels) \cup { "X" } ]
    /\ risk_out = NoCall
    /\ HoneypotFresh
    /\ max_threads = 1
    /\ net = "up"
    /\ site = [ profile |-> Hardened, forms |-> << >> ]
    /\ auth_creds = NoAuth
    /\ answers = NoAnswers
    /\ FpFresh
    /\ ArgsPlain
    /\ PageUnread
    /\ ScanFresh

\* calculate_priority(score) with the default thresholds.
CallPriority ==
    /\ risk_out = NoCall
    /\ risk_out' = [ op |-> "calculate_priority", raised |-> "",
                     score |-> risk_in.score,
                     priority |-> calculate_priority(risk_in.score) ]
    /\ UNCHANGED << envv, fpv, argv, pagev, risk_in, hpv, pc, hung, technologies,
                    crawlv, vulnerabilities, poolv, loopv, repv, discv >>

\* Lines 112-113 of assess_risks: the score of calculate_risk with the default
\* matrix, then its priority; a ValueError leaves the risk unassessed.
CallRiskThenPriority ==
    /\ risk_out = NoCall
    /\ LET r == calculate_risk(risk_in.likelihood, risk_in.impact)
       IN  risk_out' = [ op |-> "assess_risks", raised |-> r.raised,
                         score |-> r.value,
                         priority |-> IF r.raised = "" THEN calculate_priority(r.value)
                                      ELSE "" ]
    /\ UNCHANGED << envv, fpv, argv, pagev, risk_in, hpv, pc, hung, technologies,
                    crawlv, vulnerabilities, poolv, loopv, repv, discv >>

RiskNext ==
    \/ CallPriority
    \/ CallRiskThenPriority

RiskSpec == RiskInit /\ [][RiskNext]_vars

\* C23: calculate_priority gives every integer score exactly one priority:
\* High when score > 5, Medium when 2 < score <= 5, Low when score <= 2 (High
\* for 7, Medium for 4, Low for 1); and every score calculate_risk takes from
\* the default matrix gets a priority by the same rule.
C23_PriorityByThresholds ==
    (risk_out.op # "" /\ risk_out.raised = "") =>
        /\ risk_out.priority \in { "High", "Medium", "Low" }
        /\ risk_out.priority = "High" <=> risk_out.score > 5
        /\ risk_out.priority = "Medium" <=> (2 < risk_out.score /\ risk_out.score <= 5)
        /\ risk_out.priority = "Low" <=> risk_out.score <= 2
        /\ risk_out.score = 7 => risk_out.priority = "High"
        /\ risk_out.score = 4 => risk_out.priority = "Medium"
        /\ risk_out.score = 1 => risk_out.priority = "Low"
        /\ risk_out.op = "calculate_priority" => risk_out.score = risk_in.score
        /\ risk_out.op = "assess_risks" =>
               /\ risk_in.likelihood \in SeqToSet(RiskLevels)
               /\ risk_in.impact \in SeqToSet(RiskLevels)
               /\ risk_out.score \in { 1, 2, 3, 4, 6, 9 }

\* The score on the High threshold has been given its priority.
C23_Witness ==
    /\ risk_out.op = "calculate_priority"
    /\ risk_out.score = 5
    /\ risk_out.priority = "Medium"

\* ------------------------------------------------ one test method alone
\* A test method called on a scanner whose crawl has returned, as a program
\* that imports the class can call it: the links and forms crawl stored, the
\* order in which the set of links iterates, and a target that is up or down.

\* Most links of a home page explored.
MaxLinks == 11

TwoParamLink == target_url \o << "/s", "?", "a", "=", "1", "&", "b", "=", "2" >>

\* A hardened server every page of which holds the text of the second XSS
\* payload (a page about XSS, say).
StoredXss == [ Hardened EXCEPT !.stored = { XssPayloads[2] }, !.links = { ParamLink } ]

\* The injectable server with a link of two parameters.
TwoParam == [ Injectable EXCEPT !.links = { TwoParamLink, PlainLink } ]

\* Hardened servers by the Access-Control-Allow-Origin they answer ("": none).
CorsOrigins == { "", "*", "https://evil.com", "https://notevil.com", "https://good.example" }

CorsServer(a) == [ Hardened EXCEPT !.acao = a ]

\* The links of a long home page, in the order of its <a> tags.
ManyLinks == [ i \in 1..MaxLinks |-> target_url \o << "/p", ToString(i) >> ]

\* A server of that page which allows PUT everywhere.
ManyLinksServer == [ Hardened EXCEPT !.links = SeqToSet(ManyLinks), !.allow = { "PUT" } ]

Reverse(q) == [ i \in 1..Len(q) |-> q[Len(q) + 1 - i] ]

\* Orders in which a set built in the order q can iterate: all of them for a
\* small set, the order of insertion and its reverse for a large one.
LinkOrders(q) ==
    IF Len(q) <= 3 THEN Permutations3(SeqToSet(q)) ELSE { q, Reverse(q) }

\* The targets explored: the server, the links of its page in document order,
\* and its forms.
ProbeSites ==
    { [ profile |-> p, anchors |-> << >>, forms |-> fl ] :
          p \in { Hardened }, fl \in FormLists }
      \cup { [ profile |-> Injectable, anchors |-> q, forms |-> fl ] :
                q \in { << ParamLink, PlainLink >>, << PlainLink, ParamLink >> },
                fl \in FormLists }
      \cup { [ profile |-> StoredXss, anchors |-> << ParamLink >>, forms |-> fl ] :
                fl \in FormLists }
      \cup { [ profile |-> TwoParam, anchors |-> << TwoParamLink, PlainLink >>,
               forms |-> << >> ] }
      \cup { [ profile |-> CorsServer(a), anchors |-> << >>, forms |-> << >> ] :
                a \in CorsOrigins }
      \cup { [ profile |-> ManyLinksServer, anchors |-> ManyLinks, forms |-> << >> ] }

ProbeInit ==
    /\ max_threads = 1
    /\ net \in { "up", "down" }
    /\ \E ps \in ProbeSites :
          /\ site = [ profile |-> ps.profile, forms |-> ps.forms ]
          /\ page = [ anchors |-> ps.anchors, formtags |-> << >>, scripts |-> << >> ]
          /\ links_to_ignore = SeqToSet(ps.anchors)
          /\ link_iter \in LinkOrders(ps.anchors)
          /\ forms = ps.forms
    /\ crawl_idx = 0
    /\ auth_creds = NoAuth
    /\ answers = NoAnswers
    /\ FpFresh
    /\ ToolsIdle
    /\ ArgsPlain
    /\ vulnerabilities = << >>
    /\ hung = {}
    /\ technologies = << >>
    /\ submitted = 0
    /\ work_queue = << >>
    /\ num_threads = 0
    /\ idle_semaphore = 0
    /\ tstate = [ t \in TestNames |-> "new" ]
    /\ tplan = [ t \in TestNames |-> Plan(<< >>, "new") ]
    /\ tpos = [ t \in TestNames |-> 0 ]
    /\ starts = [ t \in TestNames |-> 0 ]
    /\ caught = {}
    /\ report = << >>
    /\ reports = 0
    /\ fp_done = FALSE
    /\ crawl_done = TRUE
    /\ pc = "crawl_returned"

\* One call of a test method, from its first line to its return.
CallTest(t) ==
    /\ pc = "crawl_returned"
    /\ \A u \in TestNames : tstate[u] = "new"
    /\ tstate' = [ tstate EXCEPT ![t] = Run(t).outcome ]
    /\ tplan' = [ tplan EXCEPT ![t] = Run(t) ]
    /\ tpos' = [ tpos EXCEPT ![t] = Len(Run(t).appends) ]
    /\ starts' = [ starts EXCEPT ![t] = @ + 1 ]
    /\ vulnerabilities' = vulnerabilities \o Run(t).appends
    /\ requests' = requests \o SentBy(t)
    /\ UNCHANGED << envv, toolv, argv, pagev, auth_creds, answers, fp_runs, tech_first,
                    pc, hung, technologies, crawlv, submitted, work_queue, num_threads,
                    idle_semaphore, loopv, repv, discv >>

ProbeNext == \E t \in TestNames : CallTest(t)

ProbeSpec == ProbeInit /\ [][ProbeNext]_vars

Called(t) == tstate[t] # "new"

\* The payload list, the finding type and the form field types of a test
\* method that sends payloads.
PayloadsOf(t) ==
    CASE t = "test_sql_injection"     -> SqlPayloads
      [] t = "test_xss"               -> XssPayloads
      [] t = "test_command_injection" -> CmdPayloads
      [] t = "test_ssrf"              -> SsrfPayloads

TypeOf(t) ==
    CASE t = "test_sql_injection"     -> "SQL Injection"
      [] t = "test_xss"               -> "Cross-Site Scripting (XSS)"
      [] t = "test_command_injection" -> "Command Injection"
      [] t = "test_ssrf"              -> "SSRF Potential"

FormTypesOf(t) ==
    CASE t = "test_sql_injection" -> { "text", "password", "hidden" }
      [] t = "test_xss"           -> { "text", "textarea", "search" }

UrlTests == { "test_sql_injection", "test_xss", "test_command_injection", "test_ssrf" }
FormTests == { "test_sql_injection", "test_xss" }

\* The requests of the parametrized-URL probe for the link u, in order.
UrlRequests(t, u) ==
    SelectSeq(requests,
              LAMBDA r : r.data = NoData
                         /\ \E k \in DOMAIN PayloadsOf(t) :
                                r.url = ReplaceEq(u, PayloadsOf(t)[k]))

\* The findings of the parametrized-URL probe for the link u.
UrlHits(t, u) ==
    SelectSeq(vulnerabilities,
              LAMBDA v : v.type = TypeOf(t) /\ v.url = u /\ Len(v.detail) = 1)

\* The response to the request r of the parametrized-URL probe satisfies the
\* detection predicate of the test.
UrlDetected(t, r) ==
    SessionOutcome = "ok" /\ Detect(TypeOf(t), Server("GET", r.url, NoData))

\* The submissions of the form probe to the form f, and its findings.
FormRequests(f) ==
    SelectSeq(requests, LAMBDA r : r.data # NoData /\ r.url = f.action)

FormHits(t, a) ==
    SelectSeq(vulnerabilities,
              LAMBDA v : v.type = TypeOf(t) /\ v.url = a /\ Len(v.detail) = 2)

\* The response to the submission r to the form f satisfies the detection of
\* the form probe of the test.
FormDetected(t, f, r) ==
    LET resp == Server(f.method, f.action, r.data)
    IN  /\ SessionOutcome = "ok"
        /\ IF t = "test_sql_injection"
              THEN \E e \in SqlMarkers : Contains(LowerText(resp.text), e)
              ELSE \E k \in DOMAIN XssPayloads :
                      /\ r.data = BuildData(f.inputs, XssPayloads[k], FormTypesOf(t), NoData)
                      /\ Contains(resp.text, XssPayloads[k])

Occurrences(a) == Cardinality({ i \in DOMAIN forms : forms[i].action = a })

\* C24: when a payload-sending test has run, each link with "=" has at most one
\* finding of the URL probe, no request follows the first one of that link whose
\* response is detected, and a finding stands exactly when its last request was
\* detected; each form has at most one finding per occurrence, and for a form
\* that occurs once no submission follows the first detected one; a link
\* without "=" is never requested.
C24_StopAtFirstHit ==
    \A t \in UrlTests :
        Called(t) =>
            /\ \A u \in links_to_ignore :
                  LET reqs == UrlRequests(t, u)
                      hits == UrlHits(t, u)
                  IN  IF HasParam(u)
                         THEN /\ Len(hits) <= 1
                              /\ \A k \in DOMAIN reqs :
                                     UrlDetected(t, reqs[k]) => k = Len(reqs)
                              /\ Len(hits) = 1 <=>
                                     ( reqs # << >> /\ UrlDetected(t, reqs[Len(reqs)]) )
                         ELSE \A k \in DOMAIN requests : requests[k].url # u
            /\ t \in FormTests =>
                  \A i \in DOMAIN forms :
                      LET f    == forms[i]
                          reqs == FormRequests(f)
                      IN  /\ Len(FormHits(t, f.action)) <= Occurrences(f.action)
                          /\ Occurrences(f.action) = 1 =>
                                \A k \in DOMAIN reqs :
                                    FormDetected(t, f, reqs[k]) => k = Len(reqs)

\* A probe stopped before the end of its payload list, for a link and for a form.
C24_Witness ==
    /\ Called("test_sql_injection")
    /\ Len(UrlHits("test_sql_injection", ParamLink)) = 1
    /\ Len(UrlRequests("test_sql_injection", ParamLink)) = 3
    /\ forms # << >>
    /\ Len(FormHits("test_sql_injection", forms[1].action)) = 1
    /\ Len(FormRequests(forms[1])) = 3
    /\ PlainLink \in links_to_ignore

\* The URL with the payload put at its first "=" only.
RECURSIVE ReplaceFirstEq(_, _)
ReplaceFirstEq(url, payload) ==
    IF url = << >> THEN << >>
    ELSE IF Head(url) = "=" THEN << "=", payload >> \o Tail(url)
    ELSE << Head(url) >> \o ReplaceFirstEq(Tail(url), payload)

\* How many tokens of the URL are the string s.
CountIn(url, s) == Cardinality({ i \in DOMAIN url : url[i] = s })

\* C25: every request of the parametrized-URL probe goes to a discovered link
\* with one payload of the list put at its first "=" only, so that the payload
\* is in the requested URL exactly once.
C25_PayloadAtFirstEqualsOnly ==
    \A t \in UrlTests :
        Called(t) =>
            \A k \in DOMAIN requests :
                requests[k].data = NoData =>
                    \E u \in links_to_ignore :
                        \E i \in DOMAIN PayloadsOf(t) :
                            /\ HasParam(u)
                            /\ requests[k].url = ReplaceFirstEq(u, PayloadsOf(t)[i])
                            /\ CountIn(requests[k].url, PayloadsOf(t)[i]) = 1

\* C26: every XSS finding names a payload that the response to the request
\* which carried it contains: for a finding of the URL probe the response to
\* the GET of the tested URL, for a finding of the form probe the response to
\* the submission of a form of that action filled with the payload.
C26_XssOnlyWhenPayloadEchoed ==
    Called("test_xss") =>
        \A k \in DOMAIN vulnerabilities :
            LET v == vulnerabilities[k]
            IN  v.type = TypeOf("test_xss") =>
                    IF Len(v.detail) = 1
                       THEN Contains(Server("GET", v.tested, NoData).text, v.detail[1])
                       ELSE \E i \in DOMAIN forms :
                               /\ forms[i].action = v.url
                               /\ Contains(Server(forms[i].method, forms[i].action,
                                                  BuildData(forms[i].inputs, v.detail[2],
                                                            FormTypesOf("test_xss"),
                                                            NoData)).text,
                                           v.detail[2])

CorsHits ==
    SelectSeq(vulnerabilities, LAMBDA v : v.type = "CORS Misconfiguration")

\* C27: test_cors sends one GET of the target with Origin https://evil.com, and
\* it records a finding exactly when the response came and its
\* Access-Control-Allow-Origin is "*" or contains https://evil.com.
C27_CorsFindingIffOriginAllowed ==
    Called("test_cors") =>
        LET acao == Server("GET", target_url, NoData).acao
        IN  /\ requests = << Sent("GET", target_url, NoData, "https://evil.com") >>
            /\ CorsHits # << >> <=>
                  ( SessionOutcome = "ok"
                    /\ (acao = "*" \/ Contains({ acao }, "https://evil.com")) )

\* C28: test_http_methods sends each of OPTIONS, TRACE, PUT and DELETE once to
\* the target and to each of the first ten links of the page in the order of
\* discovery, and to no other URL, and it records a finding for exactly the
\* (method, URL) pairs answered with a status other than 405 and 501.
C28_MethodsOnFirstTenDiscovered ==
    Called("test_http_methods") =>
        LET urls == SeqToSet(<< target_url >> \o Take(page.anchors, MethodUrlLimit))
        IN  /\ { requests[k].url : k \in DOMAIN requests } = urls
            /\ \A u \in urls :
                 \A j \in DOMAIN HttpMethods :
                     /\ Cardinality({ k \in DOMAIN requests :
                                        /\ requests[k].url = u
                                        /\ requests[k].method = HttpMethods[j] }) = 1
                     /\ ( \E k \in DOMAIN vulnerabilities :
                            /\ vulnerabilities[k].url = u
                            /\ vulnerabilities[k].detail = << "Method: ", HttpMethods[j] >> )
                        <=> ( SessionOutcome = "ok"
                              /\ Server(HttpMethods[j], u, NoData).status
                                     \notin { 405, 501 } )

\* ------------------------------------------------ crawl, then one test method
\* crawl() of a page of Pages, followed by one call of a test method on what
\* crawl has stored.
CrawlProbeNext == CrawlNext \/ ProbeNext

CrawlProbeSpec == CrawlInit /\ [][CrawlProbeNext]_vars

\* C29: every request a test method sends goes to a URL that contains the
\* target URL.
C29_ProbesStayOnTarget ==
    \A k \in DOMAIN requests : InUrl(target_url, requests[k].url)

\* ------------------------------------------------------- the honeypot window
\* The buttons of the window in any order, the listener threads at their own
\* pace, and clients that connect to a port somebody listens on.
HoneypotInit ==
    /\ risk_in = NoRisk
    /\ risk_out = NoCall
    /\ HoneypotFresh
    /\ max_threads = 1
    /\ net = "up"
    /\ site = [ profile |-> Hardened, forms |-> << >> ]
    /\ auth_creds = NoAuth
    /\ answers = NoAnswers
    /\ FpFresh
    /\ ArgsPlain
    /\ PageUnread
    /\ ScanFresh

scanv == << envv, fpv, argv, pagev, risk_in, risk_out, pc, hung, technologies, crawlv,
           vulnerabilities, poolv, loopv, repv, discv >>

\* The Start button.
StartHoneypot ==
    /\ ~running
    /\ \A p \in AllPorts : listeners[p].started + CountPort(ports, p) <= MaxPending
    /\ running' = start_honeypot(running, listeners, ports).running
    /\ listeners' = start_honeypot(running, listeners, ports).listeners
    /\ UNCHANGED << scanv, ports, log_entries >>

\* The Stop button.
StopHoneypot ==
    /\ running
    /\ running' = stop_honeypot(running, listeners).running
    /\ listeners' = stop_honeypot(running, listeners).listeners
    /\ UNCHANGED << scanv, ports, log_entries >>

\* The Save Configuration button with the given text in the ports field:
\* without a valid port only the status bar changes.
SaveConfiguration(text) ==
    LET new_ports == ParsePorts(text)
        after     == save_configuration(running, listeners, new_ports)
    IN  /\ IF new_ports = << >>
              THEN UNCHANGED << running, ports, listeners >>
              ELSE /\ ports' = new_ports
                   /\ running' = after.running
                   /\ listeners' = after.listeners
        /\ UNCHANGED << scanv, log_entries >>

\* Lines 248-252 of a listen_on_port thread: bind and listen fail when a socket
\* already listens on the port; the loop is entered only while running.
Bind(p) ==
    /\ listeners[p].started > 0
    /\ listeners' =
          [ listeners EXCEPT
              ![p] = [ started   |-> @.started - 1,
                       accepting |-> IF @.accepting = 0 /\ running THEN 1
                                     ELSE @.accepting ] ]
    /\ UNCHANGED << scanv, running, ports, log_entries >>

\* Lines 253-271: a client connects to a port a thread accepts on; the entry is
\* appended and the loop goes on only while running.
Connection(p) ==
    /\ listeners[p].accepting = 1
    /\ log_entries < MaxLog \/ ~running
    /\ log_entries' = IF log_entries < MaxLog THEN log_entries + 1 ELSE log_entries
    /\ listeners' = [ listeners EXCEPT ![p].accepting = IF running THEN 1 ELSE 0 ]
    /\ UNCHANGED << scanv, running, ports >>

HoneypotNext ==
    \/ StartHoneypot
    \/ StopHoneypot
    \/ \E text \in PortTexts : SaveConfiguration(text)
    \/ \E p \in AllPorts : Bind(p)
    \/ \E p \in AllPorts : Connection(p)

HoneypotSpec == HoneypotInit /\ [][HoneypotNext]_vars

\* C30: a save with at least one valid port on a running honeypot leaves it
\* running, with the new ports stored and a listener thread for each of them; a
\* save on a stopped honeypot leaves it stopped.
C30_SaveRestartsRunningHoneypot ==
    [][ \A text \in PortTexts :
          SaveConfiguration(text) =>
              /\ (running /\ ParsePorts(text) # << >>) =>
                    /\ running'
                    /\ ports' = ParsePorts(text)
                    /\ \A p \in SeqToSet(ports') :
                          listeners'[p].started + listeners'[p].accepting > 0
              /\ ~running => ~running' ]_vars

====
